---- MODULE Spec2Model ----
(***************************************************************************)
(* A model of the database viewer: the API route handlers (one pool and    *)
(* one client per request), the connection form's connect attempt with its *)
(* optional SSH tunnel, and the SSH tunnel helper with its close function. *)
(* Each part has its own next-state relation over the shared variables;    *)
(* the parts do not interact (a request handler shares nothing with the    *)
(* browser-side form but the HTTP request itself).                         *)
(***************************************************************************)
EXTENDS Integers, Sequences, FiniteSets, TLC

VARIABLES
  \* ---- one API request being handled (src/app/api/database/**/route.ts)
  hd,              \* which handler runs ("none" before the first request)
  req,             \* the request's parameters, each Absent / Empty / Present
  pc,              \* the handler's position
  poolsCreated,    \* new Pool(...) calls of this request
  poolEnds,        \* pool.end() calls of this request
  clientsAcquired, \* clients returned by pool.connect()
  clientReleases,  \* client.release() calls
  executed,        \* the statements run so far, each with its rowCount
  thrown,          \* the try block left by an exception
  pendingCode,     \* the status of the response a return inside try produced
  response,        \* the status of the response sent (0: none yet)
  \* ---- one connect attempt of the connection form
  cpc,             \* onSubmit's position
  form,            \* the submitted form values
  store,           \* the zustand store: status, error, connection url, tables
  url,             \* onSubmit's local variable url
  tunnel,          \* the tunnel of this attempt: Idle/Connecting/Ready/Failed/Closed
  localPort,       \* the local port createSSHTunnel picked (0: none)
  connectConfig,   \* the credential fields handed to ssh.connect
  sshEnds,         \* ssh.end() calls on this attempt's session
  fetches,         \* requests to /api/database/connect issued by this attempt
  fetchedUrl,      \* the url sent in that request
  attempts,        \* connect attempts started so far
  storeAtSubmit,   \* the store as it was when the current attempt was submitted
  tunnelError,     \* the error createSSHTunnel rejected with ("" if none)
  \* ---- tunnels made by src/lib/ssh-tunnel.ts, one closure each
  tstate,          \* per tunnel: Idle/Connecting/Forwarding/Ready/Failed/Closed
  connected,       \* per tunnel: the closure's connected flag
  endCalls,        \* per tunnel: ssh.end() calls
  closeCalls,      \* per tunnel: calls of the returned close function
  tconfig,         \* per tunnel: the populated credential fields of sshConfig
  \* ---- one fetchRows request (GET of tables/[tableName]/data/route.ts)
  fpc,             \* the handler's position
  fin,             \* the query-string parameters and the table's row count
  fquery,          \* the SELECT statement built: order clause, LIMIT, OFFSET
  frows,           \* the rows the SELECT returned
  fcount,          \* the count the COUNT(*) statement returned
  fbody,           \* the response payload
  fstatus,         \* the response status (0: none yet)
  \* ---- one identifier placed into a statement and read back by the engine
  ipc,             \* position: idle / named / emitted / parsed
  isite,           \* the statement the name goes into
  iname,           \* the table, column or policy name, a sequence of characters
  iemitted,        \* the identifier text the handler put into the statement
  iparsed,         \* what the engine reads there: the identifier and the rest
  \* ---- one INSERT or UPDATE built from a column -> value mapping
  wpc,             \* position: idle / try / built / sent
  wop,             \* "INSERT" (POST) or "UPDATE" (PUT)
  wmap,            \* the body's data object: its entries in enumeration order
  wstmt,           \* the statement text built: columns and the token after each
  wsent,           \* what client.query was called with: text and parameter list
  \* ---- the create-record form (CreateRecordForm)
  rpc,             \* position: idle / open / filled / submitted
  rcolumns,        \* per column: the column_default its descriptor reports
  rdata,           \* the submitted form values, per registered column
  rpayload,        \* filteredData, the data sent to the insert handler
  \* ---- the upsert-policy handler (POST of rls/route.ts) and the catalog
  ppc,             \* the handler's position
  preq,            \* the request: policyName and the clauses of the new policy
  policies,        \* pg_policy for the table: per name, its clauses or NoPolicy
  rlsEnabled,      \* the table has row level security enabled
  pbefore,         \* pg_policy as it was when the request arrived
  rlsBefore,       \* the RLS-enabled flag as it was when the request arrived
  dropIssued,      \* this request's DROP POLICY has been executed
  pfound,          \* checkResult.rowCount > 0
  pstatus,         \* the response status (0: none yet)
  \* ---- two concurrent upsert-policy requests for one table and policy name
  upc,             \* per request: the handler's position
  uclauses,        \* per request: the clauses in its body
  ufound,          \* per request: checkResult.rowCount > 0
  ustatus,         \* per request: the response status (0: none yet)
  ucatalog,        \* the clauses of the policy of that name, or NoPolicy
  \* ---- the list-policies handler (GET of rls/route.ts)
  lpc,             \* the handler's position
  lcatalog,        \* the rows of pg_policy joined to their table and schema
  lfilter,         \* the tableName query parameter
  lpolicies,       \* the policies array of the response
  lstatus,         \* the response status (0: none yet)
  \* ---- the edit-record form (EditRecordForm) and the PUT data handler
  epc,             \* position: idle / open / sent / answered / done
  eprops,          \* the form's props and store: primaryKeys, record, connection.url
  edata,           \* the submitted form values (their column names)
  erequest,        \* the request sent: query string parameters and JSON body
  estatus,         \* the response status (0: none yet)
  eupdates,        \* the WHERE conditions of the UPDATE statements executed
  eformError,      \* the form's error state
  \* ---- EnhancedRLSView
  vloading,        \* the loading state
  vhasData,        \* policies or tablesWithRls is non-empty
  verror,          \* the error state is non-null
  vinflight,       \* per kind of request: how many are awaiting their response
  vstarted,        \* requests started by the effect or the user so far
  \* ---- TableView
  tvCurrent,       \* the store's currentTable
  tvPage,          \* the page state
  tvInfo,          \* tableInfo: whose structure and count, and which rows
  tvLoading,       \* the loading state
  tvError,         \* the error state is non-null
  tvRequests,      \* the requests awaiting their response
  tvClicks         \* table selections and button clicks so far

hvars == <<hd, req, pc, poolsCreated, poolEnds, clientsAcquired, clientReleases,
           executed, thrown, pendingCode, response>>
cvars == <<cpc, form, store, url, tunnel, localPort, connectConfig, sshEnds,
           fetches, fetchedUrl, attempts, tunnelError, storeAtSubmit>>
tvars == <<tstate, connected, endCalls, closeCalls, tconfig>>
fvars == <<fpc, fin, fquery, frows, fcount, fbody, fstatus>>
ivars == <<ipc, isite, iname, iemitted, iparsed>>
wvars == <<wpc, wop, wmap, wstmt, wsent>>
rvars == <<rpc, rcolumns, rdata, rpayload>>
pvars == <<ppc, preq, policies, rlsEnabled, pbefore, rlsBefore, dropIssued,
           pfound, pstatus>>
uvars == <<upc, uclauses, ufound, ustatus, ucatalog>>
lvars == <<lpc, lcatalog, lfilter, lpolicies, lstatus>>
evars == <<epc, eprops, edata, erequest, estatus, eupdates, eformError>>
vvars == <<vloading, vhasData, verror, vinflight, vstarted>>
tablevars == <<tvCurrent, tvPage, tvInfo, tvLoading, tvError, tvRequests, tvClicks>>
bvars == <<fvars, ivars, wvars, rvars, pvars, uvars, lvars, evars, vvars, tablevars>>
exceptFetch == <<hvars, cvars, tvars, ivars, wvars, rvars, pvars, uvars, lvars, evars, vvars, tablevars>>
exceptIdent == <<hvars, cvars, tvars, fvars, wvars, rvars, pvars, uvars, lvars, evars, vvars, tablevars>>
exceptWrite == <<hvars, cvars, tvars, fvars, ivars, rvars, pvars, uvars, lvars, evars, vvars, tablevars>>
exceptRecord == <<hvars, cvars, tvars, fvars, ivars, wvars, pvars, uvars, lvars, evars, vvars, tablevars>>
exceptUpserts == <<hvars, cvars, tvars, fvars, ivars, wvars, rvars, pvars, lvars, evars, vvars, tablevars>>
exceptEdit == <<hvars, cvars, tvars, fvars, ivars, wvars, rvars, pvars, uvars, lvars, vvars, tablevars>>
exceptView == <<hvars, cvars, tvars, fvars, ivars, wvars, rvars, pvars, uvars, lvars, evars, tablevars>>
exceptTable ==
  <<hvars, cvars, tvars, fvars, ivars, wvars, rvars, pvars, uvars, lvars, evars, vvars>>
exceptList == <<hvars, cvars, tvars, fvars, ivars, wvars, rvars, pvars, uvars, evars, vvars, tablevars>>
exceptPolicy == <<hvars, cvars, tvars, fvars, ivars, wvars, rvars, uvars, lvars, evars, vvars, tablevars>>
vars == <<hvars, cvars, tvars, bvars>>

(***************************************************************************)
(* Bounds of the model.                                                    *)
(***************************************************************************)
MaxRowCount == 2
MaxAttempts == 2
MaxTunnels == 2
MaxCloseCalls == 3
MaxPage == 3
MaxPageSize == 10
MaxTableRows == 25
MaxNameLen == 3
MaxColumns == 3
MaxViewRequests == 4
MaxClicks == 4

(***************************************************************************)
(* Request parameters.  A parameter is absent (undefined / null), empty    *)
(* ('' for a string, {} or [] for an object or array) or present.          *)
(***************************************************************************)
Absent == "absent"
Empty == "empty"
Present == "present"
ParamValues == {Absent, Empty, Present}

\* !v for a string, and (!v || Object.keys(v).length === 0) or
\* (!v || v.length === 0) for an object or array: true unless v is populated.
Missing(v) == v \in {Absent, Empty}

ScopedHandlers ==
  {"dataGET", "dataPOST", "dataPUT", "dataDELETE",
   "structPOST", "structPUT", "structDELETE",
   "describeGET", "rlsGET", "rlsPOST", "rlsDELETE"}
Handlers == ScopedHandlers \cup {"connect", "runQuery"}

Operations == {"addColumn", "dropColumn", "renameColumn", "renameTable"}
\* what a caller may send as operation: nothing, '', a known one, an unknown one
OperationValues == {Absent, Empty, "truncate"} \cup Operations

\* The parameters each handler reads from the query string, the route or the body.
Reads(h) ==
  CASE h = "dataGET" -> {"connectionUrl", "tableName"}
    [] h = "dataPOST" -> {"connectionUrl", "tableName", "data"}
    [] h = "dataPUT" -> {"connectionUrl", "tableName", "data", "condition"}
    [] h = "dataDELETE" -> {"connectionUrl", "tableName", "condition"}
    [] h = "structPOST" -> {"connectionUrl", "tableName", "columns"}
    [] h = "structPUT" -> {"connectionUrl", "tableName", "operation", "column"}
    [] h = "structDELETE" -> {"connectionUrl", "tableName"}
    [] h = "describeGET" -> {"connectionUrl"}
    [] h = "rlsGET" -> {"connectionUrl", "tableName"}
    [] h = "rlsPOST" -> {"connectionUrl", "tableName", "policyName"}
    [] h = "rlsDELETE" -> {"connectionUrl", "tableName", "policyName"}
    [] h = "connect" -> {"url"}
    [] h = "runQuery" -> {"connectionUrl", "query"}

Dom(h, f) == IF f \in Reads(h) THEN ParamValues ELSE {Absent}

\* describeGET takes tableName from the route segment, which is never empty.
TableDom(h) == IF h = "describeGET" THEN {Present} ELSE Dom(h, "tableName")

\* dataTypes: the type names the create-table and add-column forms offer.
AllowedTypes ==
  {"TEXT", "VARCHAR", "CHAR", "INTEGER", "BIGINT", "SMALLINT", "DECIMAL",
   "NUMERIC", "REAL", "DOUBLE PRECISION", "BOOLEAN", "DATE", "TIME",
   "TIMESTAMP", "TIMESTAMPTZ", "JSON", "JSONB", "UUID"}

\* The type strings a request body may carry: column.type is a free string.
ColumnTypes == {"INTEGER", "TEXT", "INT); DROP TABLE users; --"}

NoColumn == [obj |-> Absent, name |-> Absent, type |-> Absent, newName |-> Absent]

\* The column object of the alter-table body: absent, or its three fields.
ColumnValues(h) ==
  IF h = "structPUT"
    THEN {NoColumn}
         \cup {[obj |-> Present, name |-> n, type |-> t, newName |-> w] :
                 n \in {Absent, Present}, t \in {Absent} \cup ColumnTypes,
                 w \in {Absent, Present}}
    ELSE {NoColumn}

Requests(h) ==
  {[connectionUrl |-> cu, tableName |-> tn, policyName |-> pn, query |-> q,
    data |-> d, condition |-> cd, columns |-> cl, url |-> u,
    operation |-> op, column |-> col, columnType |-> ct] :
     cu \in Dom(h, "connectionUrl"), tn \in TableDom(h),
     pn \in Dom(h, "policyName"), q \in Dom(h, "query"),
     d \in Dom(h, "data"), cd \in Dom(h, "condition"),
     cl \in Dom(h, "columns"), u \in Dom(h, "url"),
     op \in (IF h = "structPUT" THEN OperationValues ELSE {Absent}),
     col \in ColumnValues(h),
     ct \in (IF h = "structPOST" THEN ColumnTypes ELSE {Absent})}

NoRequest ==
  [connectionUrl |-> Absent, tableName |-> Absent, policyName |-> Absent,
   query |-> Absent, data |-> Absent, condition |-> Absent, columns |-> Absent,
   url |-> Absent, operation |-> Absent, column |-> NoColumn,
   columnType |-> Absent]

(***************************************************************************)
(* The scoped handlers: validate, new Pool, pool.connect(), then           *)
(* try { ... } finally { client.release(); await pool.end(); }             *)
(* inside try { ... } catch { 500 }.                                       *)
(***************************************************************************)

\* The 400 checks made before the pool is created.
MissingBeforePool(h, r) ==
  CASE h \in {"dataGET", "dataDELETE", "dataPOST", "dataPUT"} ->
         \/ Missing(r.connectionUrl) \/ Missing(r.tableName)
         \/ (h \in {"dataPOST", "dataPUT"} /\ Missing(r.data))
         \/ (h \in {"dataPUT", "dataDELETE"} /\ Missing(r.condition))
    [] h = "structPOST" ->
         Missing(r.connectionUrl) \/ Missing(r.tableName) \/ Missing(r.columns)
    [] h = "structPUT" ->
         Missing(r.connectionUrl) \/ Missing(r.tableName) \/ Missing(r.operation)
    [] h = "structDELETE" -> Missing(r.connectionUrl) \/ Missing(r.tableName)
    [] h = "describeGET" -> Missing(r.connectionUrl)
    [] h = "rlsGET" -> Missing(r.connectionUrl)
    [] h \in {"rlsPOST", "rlsDELETE"} ->
         Missing(r.connectionUrl) \/ Missing(r.tableName) \/ Missing(r.policyName)
    [] OTHER -> FALSE

\* A switch that rejects unknown operations only.
AlterInvalidUnknownOnly(r) == r.operation \notin Operations

\* The switch of the alter-table handler: the operation is unknown, or a column
\* field the operation needs is missing.
AlterInvalid(r) ==
  CASE r.operation = "addColumn" ->
         r.column.obj = Absent \/ Missing(r.column.name) \/ Missing(r.column.type)
    [] r.operation = "dropColumn" ->
         r.column.obj = Absent \/ Missing(r.column.name)
    [] r.operation = "renameColumn" ->
         r.column.obj = Absent \/ Missing(r.column.name) \/ Missing(r.column.newName)
    [] r.operation = "renameTable" ->
         r.column.obj = Absent \/ Missing(r.column.newName)
    [] OTHER -> TRUE

\* result.rowCount === 0 is answered 404, anything else is a success.
AffectedCodeAlwaysSuccess(rowCount) == 200

AffectedCode(rowCount) == IF rowCount = 0 THEN 404 ELSE 200

\* What client.query resolves with: every statement whose result the handlers
\* read is a SELECT or ends in RETURNING *, so rows holds rowCount entries.
Result(s, rc) == [stmt |-> s, rowCount |-> rc, rows |-> rc]

\* The success payload of the update and delete handlers:
\* { success: true, data: result.rows, rowsAffected: result.rowCount }
SuccessBody(ex) == [data |-> ex[1].rows, rowsAffected |-> ex[1].rowCount]

\* The parts of the describe-table payload, in the order of the statements
\* whose results they are taken from.
DescribeParts == <<"structure", "primaryKeys", "foreignKeys", "data", "totalRows">>

\* A payload that hands out whatever results were obtained, even on an error.
ResponsePartsPartial(code, ex) ==
  {DescribeParts[i] : i \in 1..Len(ex)} \cup (IF code = 200 THEN {} ELSE {"error", "details"})

\* The fields of the describe-table response: the success payload takes one
\* field from each statement's result; the catch's payload is { error, details }.
ResponseParts(code, ex) ==
  IF code = 200 THEN {DescribeParts[i] : i \in 1..Len(ex)} ELSE {"error", "details"}

RunQ(s) == [kind |-> "query", stmt |-> s, code |-> 0]
Ret(c) == [kind |-> "return", stmt |-> "", code |-> c]

\* An upsert that creates the policy without dropping the one the check found.
UpsertNextNoDrop(ex) ==
  LET n == Len(ex) IN
  IF n = 0 THEN RunQ("ENABLE RLS")
  ELSE IF n = 1 THEN RunQ("CHECK POLICY")
  ELSE IF ex[n].stmt # "CREATE POLICY" THEN RunQ("CREATE POLICY")
  ELSE Ret(200)

\* The try block of the upsert-policy handler: ENABLE ROW LEVEL SECURITY, the
\* existence check, DROP POLICY if checkResult.rowCount > 0, CREATE POLICY.
UpsertNext(ex) ==
  LET n == Len(ex) IN
  IF n = 0 THEN RunQ("ENABLE RLS")
  ELSE IF n = 1 THEN RunQ("CHECK POLICY")
  ELSE IF n = 2 /\ ex[2].rowCount > 0 THEN RunQ("DROP POLICY")
  ELSE IF ex[n].stmt # "CREATE POLICY" THEN RunQ("CREATE POLICY")
  ELSE Ret(200)

\* What the try block does next, given the statements it has run so far (ex):
\* run one more statement, or return a response.
TryNext(h, r, ex) ==
  LET n == Len(ex) IN
  CASE h = "dataGET" ->
         IF n = 0 THEN RunQ("SELECT rows")
         ELSE IF n = 1 THEN RunQ("SELECT COUNT") ELSE Ret(200)
    [] h = "dataPOST" -> IF n = 0 THEN RunQ("INSERT") ELSE Ret(200)
    [] h = "dataPUT" ->
         IF n = 0 THEN RunQ("UPDATE")
         ELSE Ret(AffectedCode(ex[1].rowCount))
    [] h = "dataDELETE" ->
         IF n = 0 THEN RunQ("DELETE")
         ELSE Ret(AffectedCode(ex[1].rowCount))
    [] h = "structPOST" -> IF n = 0 THEN RunQ("CREATE TABLE") ELSE Ret(200)
    [] h = "structPUT" ->
         IF n = 0
           THEN IF AlterInvalid(r) THEN Ret(400) ELSE RunQ("ALTER TABLE")
           ELSE Ret(200)
    [] h = "structDELETE" -> IF n = 0 THEN RunQ("DROP TABLE") ELSE Ret(200)
    [] h = "describeGET" ->
         IF n = 0 THEN RunQ("SELECT structure")
         ELSE IF n = 1 THEN RunQ("SELECT primary keys")
         ELSE IF n = 2 THEN RunQ("SELECT foreign keys")
         ELSE IF n = 3 THEN RunQ("SELECT sample")
         ELSE IF n = 4 THEN RunQ("SELECT COUNT") ELSE Ret(200)
    [] h = "rlsGET" ->
         IF n = 0 THEN RunQ("SELECT policies")
         ELSE IF n = 1 THEN RunQ("SELECT rls tables") ELSE Ret(200)
    [] h = "rlsPOST" -> UpsertNext(ex)
    [] h = "rlsDELETE" ->
         IF n = 0 THEN RunQ("DROP POLICY IF EXISTS") ELSE Ret(200)
    [] OTHER -> Ret(500)

ResetRequest(h, r) ==
  /\ hd' = h
  /\ req' = r
  /\ pc' = "entry"
  /\ poolsCreated' = 0
  /\ poolEnds' = 0
  /\ clientsAcquired' = 0
  /\ clientReleases' = 0
  /\ executed' = <<>>
  /\ thrown' = FALSE
  /\ pendingCode' = 0
  /\ response' = 0

\* A request arrives; the previous one, if any, has been answered.
Receive ==
  /\ pc \in {"idle", "done"}
  /\ \E h \in Handlers : \E r \in Requests(h) : ResetRequest(h, r)
  /\ UNCHANGED <<cvars, tvars, bvars>>

\* The parameter checks, then new Pool(...).
Validate ==
  /\ pc = "entry"
  /\ hd \in ScopedHandlers
  /\ IF MissingBeforePool(hd, req)
       THEN /\ response' = 400
            /\ pc' = "done"
            /\ UNCHANGED poolsCreated
       ELSE /\ poolsCreated' = poolsCreated + 1
            /\ pc' = "connect"
            /\ UNCHANGED response
  /\ UNCHANGED <<hd, req, poolEnds, clientsAcquired, clientReleases, executed,
                 thrown, pendingCode, cvars, tvars, bvars>>

\* await pool.connect() returns a client.
PoolConnectOk ==
  /\ pc = "connect"
  /\ clientsAcquired' = clientsAcquired + 1
  /\ pc' = "try"
  /\ UNCHANGED <<hd, req, poolsCreated, poolEnds, clientReleases, executed,
                 thrown, pendingCode, response, cvars, tvars, bvars>>

\* await pool.connect() rejects: the outer catch answers 500.
PoolConnectReject ==
  /\ pc = "connect"
  /\ response' = 500
  /\ pc' = "done"
  /\ UNCHANGED <<hd, req, poolsCreated, poolEnds, clientsAcquired, clientReleases,
                 executed, thrown, pendingCode, cvars, tvars, bvars>>

\* await client.query(...) resolves with some rowCount.
TryQueryOk ==
  /\ pc = "try"
  /\ hd \in ScopedHandlers
  /\ TryNext(hd, req, executed).kind = "query"
  /\ \E rc \in 0..MaxRowCount :
       executed' = Append(executed, Result(TryNext(hd, req, executed).stmt, rc))
  /\ UNCHANGED <<hd, req, pc, poolsCreated, poolEnds, clientsAcquired,
                 clientReleases, thrown, pendingCode, response, cvars, tvars, bvars>>

\* await client.query(...) rejects: the try block is left by the exception.
TryQueryThrow ==
  /\ pc = "try"
  /\ hd \in ScopedHandlers
  /\ TryNext(hd, req, executed).kind = "query"
  /\ thrown' = TRUE
  /\ pc' = "finally"
  /\ UNCHANGED <<hd, req, poolsCreated, poolEnds, clientsAcquired, clientReleases,
                 executed, pendingCode, response, cvars, tvars, bvars>>

\* return NextResponse.json(...) inside the try block: success, 400 or 404.
TryReturn ==
  /\ pc = "try"
  /\ hd \in ScopedHandlers
  /\ TryNext(hd, req, executed).kind = "return"
  /\ pendingCode' = TryNext(hd, req, executed).code
  /\ pc' = "finally"
  /\ UNCHANGED <<hd, req, poolsCreated, poolEnds, clientsAcquired, clientReleases,
                 executed, thrown, response, cvars, tvars, bvars>>

\* A finally block that would run only on a normal exit of the try block.
FinallyReleaseUnlessThrown ==
  /\ pc = "finally"
  /\ IF thrown
       THEN pc' = "respond" /\ UNCHANGED clientReleases
       ELSE pc' = "finallyEnd" /\ clientReleases' = clientReleases + 1
  /\ UNCHANGED <<hd, req, poolsCreated, poolEnds, clientsAcquired, executed,
                 thrown, pendingCode, response, cvars, tvars, bvars>>

\* finally { client.release();
FinallyRelease ==
  /\ pc = "finally"
  /\ clientReleases' = clientReleases + 1
  /\ pc' = "finallyEnd"
  /\ UNCHANGED <<hd, req, poolsCreated, poolEnds, clientsAcquired, executed,
                 thrown, pendingCode, response, cvars, tvars, bvars>>

\*           await pool.end(); }
FinallyEnd ==
  /\ pc = "finallyEnd"
  /\ poolEnds' = poolEnds + 1
  /\ pc' = "respond"
  /\ UNCHANGED <<hd, req, poolsCreated, clientsAcquired, clientReleases, executed,
                 thrown, pendingCode, response, cvars, tvars, bvars>>

\* The response leaves the handler: the pending return, or the catch's 500.
Respond ==
  /\ pc = "respond"
  /\ response' = IF thrown THEN 500 ELSE pendingCode
  /\ pc' = "done"
  /\ UNCHANGED <<hd, req, poolsCreated, poolEnds, clientsAcquired, clientReleases,
                 executed, thrown, pendingCode, cvars, tvars, bvars>>

(***************************************************************************)
(* The connect handler (connect/route.ts, first POST): no finally block.   *)
(***************************************************************************)

\* const { url } = await request.json(); url.replace(...) for the log line;
\* then the !url check; then new Pool(...).
ConnectEntry ==
  /\ pc = "entry"
  /\ hd = "connect"
  /\ CASE req.url = Absent ->
            \* url.replace on undefined throws a TypeError: the catch answers 500
            /\ response' = 500
            /\ pc' = "done"
            /\ UNCHANGED poolsCreated
       [] req.url = Empty ->
            /\ response' = 400
            /\ pc' = "done"
            /\ UNCHANGED poolsCreated
       [] OTHER ->
            /\ poolsCreated' = poolsCreated + 1
            /\ pc' = "connect"
            /\ UNCHANGED response
  /\ UNCHANGED <<hd, req, poolEnds, clientsAcquired, clientReleases, executed,
                 thrown, pendingCode, cvars, tvars, bvars>>

\* The table-listing query resolves.
ConnectQueryOk ==
  /\ pc = "try"
  /\ hd = "connect"
  /\ \E rc \in 0..MaxRowCount :
       executed' = Append(executed, Result("SELECT tables", rc))
  /\ pc' = "connectRelease"
  /\ UNCHANGED <<hd, req, poolsCreated, poolEnds, clientsAcquired, clientReleases,
                 thrown, pendingCode, response, cvars, tvars, bvars>>

\* The table-listing query rejects: control goes straight to the catch.
ConnectQueryThrow ==
  /\ pc = "try"
  /\ hd = "connect"
  /\ thrown' = TRUE
  /\ response' = 500
  /\ pc' = "done"
  /\ UNCHANGED <<hd, req, poolsCreated, poolEnds, clientsAcquired, clientReleases,
                 executed, pendingCode, cvars, tvars, bvars>>

\* client.release();
ConnectRelease ==
  /\ pc = "connectRelease"
  /\ clientReleases' = clientReleases + 1
  /\ pc' = "connectEnd"
  /\ UNCHANGED <<hd, req, poolsCreated, poolEnds, clientsAcquired, executed,
                 thrown, pendingCode, response, cvars, tvars, bvars>>

\* await pool.end(); return { success: true, tables }
ConnectEnd ==
  /\ pc = "connectEnd"
  /\ poolEnds' = poolEnds + 1
  /\ response' = 200
  /\ pc' = "done"
  /\ UNCHANGED <<hd, req, poolsCreated, clientsAcquired, clientReleases, executed,
                 thrown, pendingCode, cvars, tvars, bvars>>

(***************************************************************************)
(* The runQuery handler (connect/route.ts, second POST): the pool is made  *)
(* before the parameter checks and the statement runs through pool.query.  *)
(***************************************************************************)

RunQueryEntry ==
  /\ pc = "entry"
  /\ hd = "runQuery"
  /\ poolsCreated' = poolsCreated + 1
  /\ IF Missing(req.connectionUrl) \/ Missing(req.query)
       THEN response' = 400 /\ pc' = "done"
       ELSE pc' = "poolQuery" /\ UNCHANGED response
  /\ UNCHANGED <<hd, req, poolEnds, clientsAcquired, clientReleases, executed,
                 thrown, pendingCode, cvars, tvars, bvars>>

\* await pool.query(query) resolves: columns, rows and rowCount are returned.
RunQueryOk ==
  /\ pc = "poolQuery"
  /\ \E rc \in 0..MaxRowCount :
       executed' = Append(executed, Result("raw query", rc))
  /\ response' = 200
  /\ pc' = "done"
  /\ UNCHANGED <<hd, req, poolsCreated, poolEnds, clientsAcquired, clientReleases,
                 thrown, pendingCode, cvars, tvars, bvars>>

\* await pool.query(query) rejects: the catch answers 500 with the engine message.
RunQueryThrow ==
  /\ pc = "poolQuery"
  /\ thrown' = TRUE
  /\ response' = 500
  /\ pc' = "done"
  /\ UNCHANGED <<hd, req, poolsCreated, poolEnds, clientsAcquired, clientReleases,
                 executed, pendingCode, cvars, tvars, bvars>>

(***************************************************************************)
(* The connection form's onSubmit (connection-form.tsx) with the tunnel    *)
(* helper it imports from @/lib/ssh-utils (createSSHTunnel and             *)
(* createTunnelConnectionString), and the store (store.ts).                *)
(***************************************************************************)

\* Math.floor(Math.random() * (65535 - 1024) + 1024)
MinLocalPort == 1024
PortLimit == 65535
\* `...@localhost:5432/...` in createTunnelConnectionString
TunnelUrlPort == 5432
\* The lowest and the highest port the random choice can give, and 5432.
LocalPorts == {MinLocalPort, TunnelUrlPort, PortLimit - 1}

\* Values of the form's host and port fields.
DbHosts == {"db.internal", "localhost"}
DbPorts == {5432, 6543}

\* A submitted form: the ssh credential fields are populated (TRUE) or '' (FALSE).
Forms ==
  {[host |-> h, port |-> p, sshEnabled |-> FALSE,
    privateKey |-> FALSE, passphrase |-> FALSE, password |-> FALSE] :
     h \in DbHosts, p \in DbPorts}
  \cup
  {[host |-> h, port |-> p, sshEnabled |-> TRUE,
    privateKey |-> k, passphrase |-> ph, password |-> pw] :
     h \in DbHosts, p \in DbPorts, k \in BOOLEAN, ph \in BOOLEAN, pw \in BOOLEAN}

\* initialConnection of store.ts, without its url
InitialForm ==
  [host |-> "", port |-> 5432, sshEnabled |-> FALSE,
   privateKey |-> FALSE, passphrase |-> FALSE, password |-> FALSE]

NoUrl == [host |-> "", port |-> 0]
NoError == [null |-> TRUE, prefix |-> "", cause |-> ""]

\* The store after create(...) and after resetConnection().
InitialStore ==
  [status |-> "disconnected", error |-> NoError,
   connection |-> [data |-> InitialForm, url |-> NoUrl], tables |-> {}]

\* `postgres://${username}:${password}@${host}:${port}/${database}`
DirectUrl(data) == [host |-> data.host, port |-> data.port]

\* createTunnelConnectionString(dbConfig, localPort): the localPort parameter
\* is not used; the result always names localhost:5432.
CreateTunnelConnectionString(data, port) ==
  [host |-> "localhost", port |-> TunnelUrlPort]

\* The credential fields createSSHTunnel puts into connectConfig.
ConnectConfig(data) ==
  IF data.privateKey
    THEN {"privateKey"} \cup (IF data.passphrase THEN {"passphrase"} ELSE {})
    ELSE IF data.password THEN {"password"} ELSE {}

TunnelFailures == {"All configured authentication methods failed", "connect ETIMEDOUT"}
ConnectFailures == {"password authentication failed", "connect ECONNREFUSED"}
TableLists == {{}, {"users"}}

\* handleSubmit(onSubmit): setIsConnecting(true); setStatus('connecting');
\* url = the direct url.
Submit ==
  /\ cpc \in {"idle", "done"}
  /\ attempts < MaxAttempts
  /\ \E data \in Forms :
       /\ form' = data
       /\ url' = DirectUrl(data)
       /\ cpc' = IF data.sshEnabled THEN "tunnelStart" ELSE "setConnection"
  /\ attempts' = attempts + 1
  /\ store' = [store EXCEPT !.status = "connecting"]
  /\ tunnel' = "Idle"
  /\ localPort' = 0
  /\ connectConfig' = {}
  /\ sshEnds' = 0
  /\ fetches' = 0
  /\ fetchedUrl' = NoUrl
  /\ tunnelError' = ""
  /\ storeAtSubmit' = store
  /\ UNCHANGED <<hvars, tvars, bvars>>

\* createSSHTunnel up to ssh.connect(connectConfig): the enabled check, the
\* random local port, the credentials.
TunnelStart ==
  /\ cpc = "tunnelStart"
  /\ IF ~form.sshEnabled
       THEN /\ tunnel' = "Failed"
            /\ tunnelError' = "SSH tunnel is not enabled"
            /\ UNCHANGED <<localPort, connectConfig>>
       ELSE /\ \E p \in LocalPorts : localPort' = p
            /\ connectConfig' = ConnectConfig(form)
            /\ tunnel' = "Connecting"
            /\ UNCHANGED tunnelError
  /\ cpc' = "tunnelWait"
  /\ UNCHANGED <<form, store, url, sshEnds, fetches, fetchedUrl, attempts,
                 storeAtSubmit, hvars, tvars, bvars>>

\* ssh.on('ready'): connected = true; ssh.forwardOut(...) is requested.
SshReady ==
  /\ tunnel = "Connecting"
  /\ tunnel' = "Forwarding"
  /\ UNCHANGED <<cpc, form, store, url, localPort, connectConfig, sshEnds,
                 fetches, fetchedUrl, attempts, tunnelError, storeAtSubmit, hvars, tvars, bvars>>

\* ssh.on('error'): reject(err).
SshError ==
  /\ tunnel \in {"Connecting", "Forwarding"}
  /\ tunnel' = "Failed"
  /\ \E e \in TunnelFailures : tunnelError' = e
  /\ UNCHANGED <<cpc, form, store, url, localPort, connectConfig, sshEnds,
                 fetches, fetchedUrl, attempts, storeAtSubmit, hvars, tvars, bvars>>

\* forwardOut's callback with err: ssh.end(); reject(err).
ForwardErr ==
  /\ tunnel = "Forwarding"
  /\ sshEnds' = sshEnds + 1
  /\ tunnel' = "Failed"
  /\ tunnelError' = "forwardOut failed"
  /\ UNCHANGED <<cpc, form, store, url, localPort, connectConfig, fetches,
                 fetchedUrl, attempts, storeAtSubmit, hvars, tvars, bvars>>

\* forwardOut's callback without err: resolve({ localPort }).  No close
\* function is returned (it is commented out).
ForwardOk ==
  /\ tunnel = "Forwarding"
  /\ tunnel' = "Ready"
  /\ UNCHANGED <<cpc, form, store, url, localPort, connectConfig, sshEnds,
                 fetches, fetchedUrl, attempts, tunnelError, storeAtSubmit, hvars, tvars, bvars>>

\* onSubmit going on without waiting for createSSHTunnel's promise.
TunnelResolvedNoAwait ==
  /\ cpc = "tunnelWait"
  /\ tunnel # "Failed"
  /\ url' = CreateTunnelConnectionString(form, localPort)
  /\ cpc' = "setConnection"
  /\ UNCHANGED <<form, store, tunnel, localPort, connectConfig, sshEnds, fetches,
                 fetchedUrl, attempts, tunnelError, storeAtSubmit, hvars, tvars, bvars>>

\* await createSSHTunnel(...) resumes with the tunnel; then
\* url = await createTunnelConnectionString(dbConfig, tunnel.localPort).
TunnelResolved ==
  /\ cpc = "tunnelWait"
  /\ tunnel = "Ready"
  /\ url' = CreateTunnelConnectionString(form, localPort)
  /\ cpc' = "setConnection"
  /\ UNCHANGED <<form, store, tunnel, localPort, connectConfig, sshEnds, fetches,
                 fetchedUrl, attempts, tunnelError, storeAtSubmit, hvars, tvars, bvars>>

\* An inner catch that logs the tunnel error and carries on.
TunnelRejectedSwallowed ==
  /\ cpc = "tunnelWait"
  /\ tunnel = "Failed"
  /\ cpc' = "setConnection"
  /\ UNCHANGED <<form, store, url, tunnel, localPort, connectConfig, sshEnds,
                 fetches, fetchedUrl, attempts, tunnelError, storeAtSubmit, hvars, tvars, bvars>>

\* await createSSHTunnel(...) throws: the inner catch rethrows
\* Error(`SSH tunnel error: ${message}`), the outer catch does setStatus('error')
\* and setError(error), finally setIsConnecting(false).
TunnelRejected ==
  /\ cpc = "tunnelWait"
  /\ tunnel = "Failed"
  /\ store' = [store EXCEPT
                 !.status = "error",
                 !.error = [null |-> FALSE, prefix |-> "SSH tunnel error: ",
                            cause |-> tunnelError]]
  /\ cpc' = "done"
  /\ UNCHANGED <<form, url, tunnel, localPort, connectConfig, sshEnds, fetches,
                 fetchedUrl, attempts, tunnelError, storeAtSubmit, hvars, tvars, bvars>>

\* setConnection({ ...data, url }); then fetch('/api/database/connect', { url }).
SetConnectionAndFetch ==
  /\ cpc = "setConnection"
  /\ store' = [store EXCEPT !.connection = [data |-> form, url |-> url]]
  /\ fetches' = fetches + 1
  /\ fetchedUrl' = url
  /\ cpc' = "fetching"
  /\ UNCHANGED <<form, url, tunnel, localPort, connectConfig, sshEnds, attempts,
                 tunnelError, storeAtSubmit, hvars, tvars, bvars>>

\* response.ok: setTables(result.tables); setStatus('connected').
FetchOk ==
  /\ cpc = "fetching"
  /\ \E ts \in TableLists :
       store' = [store EXCEPT !.tables = ts, !.status = "connected"]
  /\ cpc' = "done"
  /\ UNCHANGED <<form, url, tunnel, localPort, connectConfig, sshEnds, fetches,
                 fetchedUrl, attempts, tunnelError, storeAtSubmit, hvars, tvars, bvars>>

\* !response.ok (or fetch itself failing): throw; the catch does
\* setStatus('error') and setError(error).
FetchFailed ==
  /\ cpc = "fetching"
  /\ \E e \in ConnectFailures :
       store' = [store EXCEPT
                   !.status = "error",
                   !.error = [null |-> FALSE, prefix |-> "", cause |-> e]]
  /\ cpc' = "done"
  /\ UNCHANGED <<form, url, tunnel, localPort, connectConfig, sshEnds, fetches,
                 fetchedUrl, attempts, tunnelError, storeAtSubmit, hvars, tvars, bvars>>

\* handleDisconnect: resetConnection().  The button is live at any time.
Disconnect ==
  /\ store # InitialStore \/ cpc = "done"
  /\ store' = InitialStore
  /\ cpc' = IF cpc = "done" THEN "idle" ELSE cpc
  /\ UNCHANGED <<form, url, tunnel, localPort, connectConfig, sshEnds, fetches,
                 fetchedUrl, attempts, tunnelError, storeAtSubmit, hvars, tvars, bvars>>


(***************************************************************************)
(* src/lib/ssh-tunnel.ts: createSSHTunnel resolves to a close function.    *)
(* Each call makes its own ssh client and its own connected flag.          *)
(***************************************************************************)
Tunnels == 1..MaxTunnels

\* The credential fields of an SSHConfig that are populated; ssh.connect(sshConfig)
\* is handed the whole object.
SshConfigs == SUBSET {"password", "privateKey"}

\* createSSHTunnel(sshConfig, forwardConfig): new Client(), connected = false,
\* the handlers are registered, ssh.connect(sshConfig).
CreateTunnel(i) ==
  /\ tstate[i] = "Idle"
  /\ \E cfg \in SshConfigs : tconfig' = [tconfig EXCEPT ![i] = cfg]
  /\ tstate' = [tstate EXCEPT ![i] = "Connecting"]
  /\ UNCHANGED <<connected, endCalls, closeCalls, hvars, cvars, bvars>>

\* ssh.on('ready'): connected = true; ssh.forwardOut(...).
LibSshReady(i) ==
  /\ tstate[i] = "Connecting"
  /\ connected' = [connected EXCEPT ![i] = TRUE]
  /\ tstate' = [tstate EXCEPT ![i] = "Forwarding"]
  /\ UNCHANGED <<endCalls, closeCalls, tconfig, hvars, cvars, bvars>>

\* ssh.on('error'): reject(err).
LibSshError(i) ==
  /\ tstate[i] \in {"Connecting", "Forwarding"}
  /\ tstate' = [tstate EXCEPT ![i] = "Failed"]
  /\ UNCHANGED <<connected, endCalls, closeCalls, tconfig, hvars, cvars, bvars>>

\* forwardOut's callback with err: ssh.end(); reject(err).
LibForwardErr(i) ==
  /\ tstate[i] = "Forwarding"
  /\ endCalls' = [endCalls EXCEPT ![i] = @ + 1]
  /\ tstate' = [tstate EXCEPT ![i] = "Failed"]
  /\ UNCHANGED <<connected, closeCalls, tconfig, hvars, cvars, bvars>>

\* forwardOut's callback without err: resolve(close).
LibForwardOk(i) ==
  /\ tstate[i] = "Forwarding"
  /\ tstate' = [tstate EXCEPT ![i] = "Ready"]
  /\ UNCHANGED <<connected, endCalls, closeCalls, tconfig, hvars, cvars, bvars>>

\* A close function without the connected guard.
CloseUnguarded(i) ==
  /\ tstate[i] \in {"Ready", "Closed"}
  /\ closeCalls[i] < MaxCloseCalls
  /\ closeCalls' = [closeCalls EXCEPT ![i] = @ + 1]
  /\ endCalls' = [endCalls EXCEPT ![i] = @ + 1]
  /\ connected' = [connected EXCEPT ![i] = FALSE]
  /\ tstate' = [tstate EXCEPT ![i] = "Closed"]
  /\ UNCHANGED <<tconfig, hvars, cvars, bvars>>

\* The caller calls the close function it was given:
\* if (connected) { ssh.end(); connected = false; }
Close(i) ==
  /\ tstate[i] \in {"Ready", "Closed"}
  /\ closeCalls[i] < MaxCloseCalls
  /\ closeCalls' = [closeCalls EXCEPT ![i] = @ + 1]
  /\ IF connected[i]
       THEN /\ endCalls' = [endCalls EXCEPT ![i] = @ + 1]
            /\ connected' = [connected EXCEPT ![i] = FALSE]
            /\ tstate' = [tstate EXCEPT ![i] = "Closed"]
       ELSE UNCHANGED <<endCalls, connected, tstate>>
  /\ UNCHANGED <<tconfig, hvars, cvars, bvars>>

\* ---- init and specifications

(***************************************************************************)
(* fetchRows: the GET handler of tables/[tableName]/data/route.ts, with    *)
(* the values it computes.  The table holds fin.tableRows rows and no      *)
(* filter is given.                                                        *)
(***************************************************************************)

DefaultPage == 1
DefaultPageSize == 10

\* What a caller may send as page, pageSize, orderBy and orderDirection.
\* (NotGiven stands for a page or pageSize parameter that is absent or ''.)
NotGiven == -1
PageParams == {NotGiven} \cup 0..MaxPage
PageSizeParams == {NotGiven} \cup 1..MaxPageSize
OrderByParams == {Absent, "id"}
DirectionParams == {Absent, "ASC", "DESC", "ASC NULLS FIRST"}

FetchInputs ==
  [page : PageParams, pageSize : PageSizeParams, orderBy : OrderByParams,
   orderDirection : DirectionParams, tableRows : 0..MaxTableRows]

\* parseInt(searchParams.get(name) || dflt, 10)
ParseIntOr(v, dflt) == IF v = NotGiven THEN dflt ELSE v

\* searchParams.get('orderDirection') || 'ASC'
DirectionOf(v) == IF v = Absent THEN "ASC" ELSE v

\* An offset that skips the requested page as well.
OffsetPastPage(page, pageSize) == page * pageSize

\* const offset = (page - 1) * pageSize;
Offset(page, pageSize) == (page - 1) * pageSize

NoOrder == [column |-> Absent, direction |-> Absent]
NoQuery == [order |-> NoOrder, limit |-> 0, offset |-> 0]
NoBody == [data |-> 0, page |-> 0, pageSize |-> 0, totalRows |-> 0, totalPages |-> 0]
NoFetch ==
  [page |-> NotGiven, pageSize |-> NotGiven, orderBy |-> Absent,
   orderDirection |-> Absent, tableRows |-> 0]

\* The SELECT statement: ORDER BY "${orderBy}" ${orderDirection} if orderBy is
\* given, then LIMIT ${pageSize} OFFSET ${offset}.
BuildSelect(in) ==
  [order |-> IF in.orderBy # Absent
               THEN [column |-> in.orderBy, direction |-> DirectionOf(in.orderDirection)]
               ELSE NoOrder,
   limit |-> ParseIntOr(in.pageSize, DefaultPageSize),
   offset |-> Offset(ParseIntOr(in.page, DefaultPage),
                     ParseIntOr(in.pageSize, DefaultPageSize))]

Min(a, b) == IF a <= b THEN a ELSE b
Max(a, b) == IF a >= b THEN a ELSE b

\* The engine's LIMIT / OFFSET over a table of n rows.
EngineRows(q, n) == Min(q.limit, Max(0, n - q.offset))

\* Math.ceil(totalRows / pageSize)
CeilDiv(a, b) == (a + b - 1) \div b

\* A request arrives with connectionUrl and tableName; pool.connect() succeeds.
\* (Invocations share nothing, so one request is followed to its response.)
FetchReceive ==
  /\ fpc = "idle"
  /\ \E in \in FetchInputs : fin' = in
  /\ fpc' = "try"
  /\ fquery' = NoQuery
  /\ frows' = 0
  /\ fcount' = 0
  /\ fbody' = NoBody
  /\ fstatus' = 0
  /\ UNCHANGED <<exceptFetch>>

\* The offset and the statement text are computed.
FetchBuild ==
  /\ fpc = "try"
  /\ fquery' = BuildSelect(fin)
  /\ fpc' = "select"
  /\ UNCHANGED <<fin, frows, fcount, fbody, fstatus, exceptFetch>>

\* await client.query(query, queryParams): the engine refuses a negative
\* OFFSET; otherwise it returns the page of rows.
FetchSelect ==
  /\ fpc = "select"
  /\ IF fquery.offset < 0
       THEN /\ fstatus' = 500
            /\ fpc' = "done"
            /\ UNCHANGED frows
       ELSE /\ frows' = EngineRows(fquery, fin.tableRows)
            /\ fpc' = "count"
            /\ UNCHANGED fstatus
  /\ UNCHANGED <<fin, fquery, fcount, fbody, exceptFetch>>

\* await client.query(countQuery, queryParams)
FetchCount ==
  /\ fpc = "count"
  /\ fcount' = fin.tableRows
  /\ fpc' = "respond"
  /\ UNCHANGED <<fin, fquery, frows, fbody, fstatus, exceptFetch>>

\* Either statement rejects: the catch answers 500.
FetchThrow ==
  /\ fpc \in {"select", "count"}
  /\ fstatus' = 500
  /\ fpc' = "done"
  /\ UNCHANGED <<fin, fquery, frows, fcount, fbody, exceptFetch>>

\* totalRows, totalPages and the payload.
FetchRespond ==
  /\ fpc = "respond"
  /\ fbody' = [data |-> frows,
               page |-> ParseIntOr(fin.page, DefaultPage),
               pageSize |-> ParseIntOr(fin.pageSize, DefaultPageSize),
               totalRows |-> fcount,
               totalPages |-> CeilDiv(fcount, ParseIntOr(fin.pageSize, DefaultPageSize))]
  /\ fstatus' = 200
  /\ fpc' = "done"
  /\ UNCHANGED <<fin, fquery, frows, fcount, exceptFetch>>

InitFetch ==
  /\ fpc = "idle"
  /\ fin = NoFetch
  /\ fquery = NoQuery
  /\ frows = 0
  /\ fcount = 0
  /\ fbody = NoBody
  /\ fstatus = 0

(***************************************************************************)
(* Identifiers in statement text.  Every handler writes a name between two *)
(* double-quote characters, `"${tableName}"`; the engine reads a quoted    *)
(* identifier up to the first double quote that is not doubled.            *)
(***************************************************************************)

Quote == "\""
Chars == {"a", Quote}

RECURSIVE SeqsUpTo(_)
SeqsUpTo(n) ==
  IF n = 0 THEN {<<>>}
  ELSE LET shorter == SeqsUpTo(n - 1)
       IN shorter \cup {Append(w, c) : w \in {v \in shorter : Len(v) = n - 1}, c \in Chars}

\* The names a caller may send: tableName, column.name, policyName are free text.
Names == SeqsUpTo(MaxNameLen) \ {<<>>}

\* The places where a handler writes a caller's name into a statement.
Sites ==
  {"SELECT * FROM table", "INSERT INTO table", "INSERT column", "UPDATE SET column",
   "CREATE TABLE table", "CREATE TABLE column", "ALTER TABLE column",
   "DROP TABLE table", "CREATE POLICY policy", "DROP POLICY policy"}

\* A writer that doubles embedded double quotes.
RECURSIVE QuoteIdentifierEscaping(_, _)
QuoteIdentifierEscaping(site, name) ==
  IF name = <<>> THEN <<Quote, Quote>>
  ELSE LET rest == QuoteIdentifierEscaping(site, Tail(name))
       IN IF Head(name) = Quote
            THEN <<Quote, Quote, Quote>> \o Tail(rest)
            ELSE <<Quote, Head(name)>> \o Tail(rest)

\* `"${name}"`: the same template at every site.
QuoteIdentifier(site, name) == <<Quote>> \o name \o <<Quote>>

\* The engine reading the inside of a quoted identifier: "" is one quote
\* character, a single " ends the identifier.
RECURSIVE ReadQuoted(_, _)
ReadQuoted(text, acc) ==
  IF text = <<>> THEN [ident |-> acc, rest |-> <<>>, closed |-> FALSE]
  ELSE IF Head(text) # Quote THEN ReadQuoted(Tail(text), Append(acc, Head(text)))
  ELSE IF Len(text) >= 2 /\ text[2] = Quote
         THEN ReadQuoted(Tail(Tail(text)), Append(acc, Quote))
  ELSE [ident |-> acc, rest |-> Tail(text), closed |-> TRUE]

\* The engine reading a quoted identifier from its opening quote.
EngineUnquote(text) ==
  IF text # <<>> /\ Head(text) = Quote
    THEN ReadQuoted(Tail(text), <<>>)
    ELSE [ident |-> <<>>, rest |-> text, closed |-> FALSE]

NoParse == [ident |-> <<>>, rest |-> <<>>, closed |-> FALSE]

\* A request names a table, a column or a policy.
IdentReceive ==
  /\ ipc = "idle"
  /\ \E site \in Sites, name \in Names : isite' = site /\ iname' = name
  /\ ipc' = "named"
  /\ UNCHANGED <<iemitted, iparsed, exceptIdent>>

\* The handler writes the name into the statement text.
IdentEmit ==
  /\ ipc = "named"
  /\ iemitted' = QuoteIdentifier(isite, iname)
  /\ ipc' = "emitted"
  /\ UNCHANGED <<isite, iname, iparsed, exceptIdent>>

\* The engine reads the identifier back from the statement text.
IdentParse ==
  /\ ipc = "emitted"
  /\ iparsed' = EngineUnquote(iemitted)
  /\ ipc' = "parsed"
  /\ UNCHANGED <<isite, iname, iemitted, exceptIdent>>

InitIdent ==
  /\ ipc = "idle"
  /\ isite = "none"
  /\ iname = <<>>
  /\ iemitted = <<>>
  /\ iparsed = NoParse

(***************************************************************************)
(* INSERT and UPDATE statements built from the body's data object (POST    *)
(* and PUT of tables/[tableName]/data/route.ts).                           *)
(***************************************************************************)

ColumnNames == {"a", "b", "c"}
CellValues == {"x", "y"}

\* The data objects of a request body: up to MaxColumns entries, each column
\* once, in the order Object.keys and Object.values enumerate them.
DataObjects ==
  UNION {{m \in [1..n -> [col : ColumnNames, val : CellValues]] :
            \A i, j \in 1..n : i # j => m[i].col # m[j].col} : n \in 1..MaxColumns}

\* Object.keys(data) and Object.values(data)
Keys(data) == [i \in 1..Len(data) |-> data[i].col]
Values(data) == [i \in 1..Len(data) |-> data[i].val]

\* Placeholders numbered like the array indices.
PlaceholdersFromZero(columns) ==
  [i \in 1..Len(columns) |-> [kind |-> "placeholder", index |-> i - 1]]

\* columns.map((_, index) => `$${index + 1}`)
Placeholders(columns) ==
  [i \in 1..Len(columns) |-> [kind |-> "placeholder", index |-> i]]

\* INSERT INTO "t" ("c1", ...) VALUES ($1, ...) RETURNING *: the column list
\* and, position by position, the VALUES list.
\* UPDATE "t" SET "c1" = $1, ... WHERE ${condition} RETURNING *: the SET
\* targets and what each is set to.
BuildWrite(op, data) ==
  [op |-> op, columns |-> Keys(data), slots |-> Placeholders(Keys(data))]

NoStatement == [op |-> "none", columns |-> <<>>, slots |-> <<>>]
NoCall == [text |-> NoStatement, params |-> <<>>]

\* A request arrives with a non-empty data object; pool.connect() succeeds.
WriteReceive ==
  /\ wpc = "idle"
  /\ \E op \in {"INSERT", "UPDATE"}, data \in DataObjects : wop' = op /\ wmap' = data
  /\ wpc' = "try"
  /\ UNCHANGED <<wstmt, wsent, exceptWrite>>

\* columns, values, placeholders / setClause, query
WriteBuild ==
  /\ wpc = "try"
  /\ wstmt' = BuildWrite(wop, wmap)
  /\ wpc' = "built"
  /\ UNCHANGED <<wop, wmap, wsent, exceptWrite>>

\* await client.query(query, values)
WriteQuery ==
  /\ wpc = "built"
  /\ wsent' = [text |-> wstmt, params |-> Values(wmap)]
  /\ wpc' = "sent"
  /\ UNCHANGED <<wop, wmap, wstmt, exceptWrite>>

InitWrite ==
  /\ wpc = "idle"
  /\ wop = "none"
  /\ wmap = <<>>
  /\ wstmt = NoStatement
  /\ wsent = NoCall

(***************************************************************************)
(* The create-record form: which columns it registers and which of the     *)
(* submitted values it sends on (CreateRecordForm).                        *)
(***************************************************************************)

FormColumns == {"id", "created_at", "name"}

\* column_default of a descriptor: null, a sequence, an identity, or anything
\* else (a constant, now(), ...).
NoDefault == "null"
ColumnDefaults == {NoDefault, "nextval('t_id_seq'::regclass)", "identity", "now()"}

\* column_default.includes('nextval') || column_default.includes('identity')
IsGenerated(dflt) == dflt \in {"nextval('t_id_seq'::regclass)", "identity"}

\* What a registered field can hold on submit: null (the default value), ''
\* (an emptied input) or text the user typed.
FieldValues == {"null", "''", "typed"}

\* defaultValues: the columns the form registers (generated ones are skipped,
\* and no input is rendered for them).
Registered(columns) ==
  {c \in DOMAIN columns : ~(columns[c] # NoDefault /\ IsGenerated(columns[c]))}

\* if (column?.column_default && (value === null || value === '')) the entry
\* is skipped; otherwise it is copied.
Keeps(columns, data, c) ==
  ~(columns[c] # NoDefault /\ data[c] \in {"null", "''"})

\* filteredData
FilteredData(columns, data) ==
  [c \in {k \in DOMAIN data : Keeps(columns, data, k)} |-> data[c]]

\* The form is opened for a table.
RecordOpen ==
  /\ rpc = "idle"
  /\ \E columns \in [FormColumns -> ColumnDefaults] : rcolumns' = columns
  /\ rpc' = "open"
  /\ UNCHANGED <<rdata, rpayload, exceptRecord>>

\* The user fills the registered fields and presses Create Record.
RecordFill ==
  /\ rpc = "open"
  /\ \E data \in [Registered(rcolumns) -> FieldValues] : rdata' = data
  /\ rpc' = "filled"
  /\ UNCHANGED <<rcolumns, rpayload, exceptRecord>>

\* onSubmit: filteredData is computed and posted.
RecordSubmit ==
  /\ rpc = "filled"
  /\ rpayload' = FilteredData(rcolumns, rdata)
  /\ rpc' = "submitted"
  /\ UNCHANGED <<rcolumns, rdata, exceptRecord>>

InitRecord ==
  /\ rpc = "idle"
  /\ rcolumns = [c \in FormColumns |-> NoDefault]
  /\ rdata = [c \in {} |-> "null"]
  /\ rpayload = [c \in {} |-> "null"]

(***************************************************************************)
(* The upsert-policy handler (POST of rls/route.ts) against the engine's   *)
(* policy catalog of one table.  Each statement is its own transaction.    *)
(***************************************************************************)

PolicyNames == {"p", "q"}
\* The clauses of a policy (command, roles, USING, WITH CHECK), as one value.
Clauses == {"using a", "using b"}
NoPolicy == "none"

PolicyRequests == [policyName : PolicyNames, clauses : Clauses]
NoPolicyRequest == [policyName |-> "", clauses |-> NoPolicy]

\* A request arrives with connectionUrl, tableName and policyName; the
\* previous request, if any, has been answered.
PolicyReceive ==
  /\ ppc \in {"idle", "done"}
  /\ \E r \in PolicyRequests : preq' = r
  /\ pbefore' = policies
  /\ rlsBefore' = rlsEnabled
  /\ dropIssued' = FALSE
  /\ pfound' = FALSE
  /\ pstatus' = 0
  /\ ppc' = "enable"
  /\ UNCHANGED <<policies, rlsEnabled, exceptPolicy>>

\* ALTER TABLE "t" ENABLE ROW LEVEL SECURITY;
PolicyEnable ==
  /\ ppc = "enable"
  /\ rlsEnabled' = TRUE
  /\ ppc' = "check"
  /\ UNCHANGED <<preq, policies, pbefore, rlsBefore, dropIssued, pfound, pstatus,
                 exceptPolicy>>

\* SELECT 1 FROM pg_policy WHERE polname = $1 AND polrelid = ...
PolicyCheck ==
  /\ ppc = "check"
  /\ pfound' = (policies[preq.policyName] # NoPolicy)
  /\ ppc' = IF policies[preq.policyName] # NoPolicy THEN "drop" ELSE "create"
  /\ UNCHANGED <<preq, policies, rlsEnabled, pbefore, rlsBefore, dropIssued,
                 pstatus, exceptPolicy>>

\* DROP POLICY "p" ON "t";  (the engine refuses if there is no such policy)
PolicyDrop ==
  /\ ppc = "drop"
  /\ IF policies[preq.policyName] # NoPolicy
       THEN /\ policies' = [policies EXCEPT ![preq.policyName] = NoPolicy]
            /\ dropIssued' = TRUE
            /\ ppc' = "create"
            /\ UNCHANGED pstatus
       ELSE /\ pstatus' = 500
            /\ ppc' = "done"
            /\ UNCHANGED <<policies, dropIssued>>
  /\ UNCHANGED <<preq, rlsEnabled, pbefore, rlsBefore, pfound, exceptPolicy>>

\* CREATE POLICY "p" ON "t" ...;  (the engine refuses a name that exists);
\* then the success response.
PolicyCreate ==
  /\ ppc = "create"
  /\ IF policies[preq.policyName] = NoPolicy
       THEN /\ policies' = [policies EXCEPT ![preq.policyName] = preq.clauses]
            /\ pstatus' = 200
       ELSE /\ pstatus' = 500
            /\ UNCHANGED policies
  /\ ppc' = "done"
  /\ UNCHANGED <<preq, rlsEnabled, pbefore, rlsBefore, dropIssued, pfound,
                 exceptPolicy>>

\* A statement is rejected by the engine (an expression that does not parse,
\* a missing column or role, a lost connection): the catch answers 500.
PolicyThrow ==
  /\ ppc \in {"enable", "check", "drop", "create"}
  /\ pstatus' = 500
  /\ ppc' = "done"
  /\ UNCHANGED <<preq, policies, rlsEnabled, pbefore, rlsBefore, dropIssued,
                 pfound, exceptPolicy>>

InitPolicy ==
  /\ ppc = "idle"
  /\ preq = NoPolicyRequest
  /\ policies = [n \in PolicyNames |-> NoPolicy]
  /\ rlsEnabled = FALSE
  /\ pbefore = [n \in PolicyNames |-> NoPolicy]
  /\ rlsBefore = FALSE
  /\ dropIssued = FALSE
  /\ pfound = FALSE
  /\ pstatus = 0

(***************************************************************************)
(* Two upsert-policy requests (POST of rls/route.ts) running at the same   *)
(* time for the same table and policy name.  Each has its own pool and     *)
(* client; each statement is atomic in the engine and commits on its own.  *)
(***************************************************************************)

Requesters == {1, 2}

\* The clauses a request carries once it has arrived, and those of a policy
\* made beforehand.
RequestClauses(i) == uclauses[i]
EarlierClauses == "using old"

\* The policy exists before either request arrives.
UpsertSeed ==
  /\ \A i \in Requesters : upc[i] = "idle"
  /\ ucatalog = NoPolicy
  /\ ucatalog' = EarlierClauses
  /\ UNCHANGED <<upc, uclauses, ufound, ustatus, exceptUpserts>>

\* Request i arrives; pool.connect() succeeds.
UpsertReceive(i) ==
  /\ upc[i] = "idle"
  /\ \E c \in Clauses : uclauses' = [uclauses EXCEPT ![i] = c]
  /\ upc' = [upc EXCEPT ![i] = "enable"]
  /\ UNCHANGED <<ufound, ustatus, ucatalog, exceptUpserts>>

\* ALTER TABLE ... ENABLE ROW LEVEL SECURITY;
UpsertEnable(i) ==
  /\ upc[i] = "enable"
  /\ upc' = [upc EXCEPT ![i] = "check"]
  /\ UNCHANGED <<uclauses, ufound, ustatus, ucatalog, exceptUpserts>>

\* The existence check and the branch on checkResult.rowCount > 0.
UpsertCheck(i) ==
  /\ upc[i] = "check"
  /\ ufound' = [ufound EXCEPT ![i] = (ucatalog # NoPolicy)]
  /\ upc' = [upc EXCEPT ![i] = IF ucatalog # NoPolicy THEN "drop" ELSE "create"]
  /\ UNCHANGED <<uclauses, ustatus, ucatalog, exceptUpserts>>

\* DROP POLICY: the engine refuses if the policy is no longer there, and the
\* catch answers 500.
UpsertDrop(i) ==
  /\ upc[i] = "drop"
  /\ IF ucatalog # NoPolicy
       THEN /\ ucatalog' = NoPolicy
            /\ upc' = [upc EXCEPT ![i] = "create"]
            /\ UNCHANGED ustatus
       ELSE /\ ustatus' = [ustatus EXCEPT ![i] = 500]
            /\ upc' = [upc EXCEPT ![i] = "done"]
            /\ UNCHANGED ucatalog
  /\ UNCHANGED <<uclauses, ufound, exceptUpserts>>

\* CREATE POLICY: the engine refuses a name that exists, and the catch answers
\* 500; otherwise the success response.
UpsertCreate(i) ==
  /\ upc[i] = "create"
  /\ IF ucatalog = NoPolicy
       THEN /\ ucatalog' = RequestClauses(i)
            /\ ustatus' = [ustatus EXCEPT ![i] = 200]
       ELSE /\ ustatus' = [ustatus EXCEPT ![i] = 500]
            /\ UNCHANGED ucatalog
  /\ upc' = [upc EXCEPT ![i] = "done"]
  /\ UNCHANGED <<uclauses, ufound, exceptUpserts>>

InitUpserts ==
  /\ upc = [i \in Requesters |-> "idle"]
  /\ uclauses = [i \in Requesters |-> NoPolicy]
  /\ ufound = [i \in Requesters |-> FALSE]
  /\ ustatus = [i \in Requesters |-> 0]
  /\ ucatalog = NoPolicy

(***************************************************************************)
(* The list-policies handler (GET of rls/route.ts) over a database that    *)
(* has tables of the same name in more than one schema.                    *)
(***************************************************************************)

Schemas == {"public", "audit"}
ListedTables == {"users", "orders"}
PolicyRows == [schema_name : Schemas, table_name : ListedTables, policy_name : {"p"}]
TableNameParams == {Absent, Empty} \cup ListedTables

\* The WHERE clause the handler appends: `if (tableName)` is false for a
\* parameter that is not given and for the empty string.
ListWhere(row, tableName) ==
  IF tableName \in {Absent, Empty}
    THEN row.schema_name = "public"
    ELSE row.table_name = tableName

\* result.rows of the policies query.
ListPolicies(catalog, tableName) == {row \in catalog : ListWhere(row, tableName)}

\* The database the request will meet.
ListSeed ==
  /\ lpc = "idle"
  /\ lcatalog = {}
  /\ \E c \in (SUBSET PolicyRows) \ {{}} : lcatalog' = c
  /\ UNCHANGED <<lpc, lfilter, lpolicies, lstatus, exceptList>>

\* The request arrives with a connection URL; pool.connect() succeeds.
ListReceive ==
  /\ lpc = "idle"
  /\ \E t \in TableNameParams : lfilter' = t
  /\ lpc' = "query"
  /\ UNCHANGED <<lcatalog, lpolicies, lstatus, exceptList>>

\* Both queries succeed; the response carries result.rows.
ListRespond ==
  /\ lpc = "query"
  /\ lpolicies' = ListPolicies(lcatalog, lfilter)
  /\ lstatus' = 200
  /\ lpc' = "done"
  /\ UNCHANGED <<lcatalog, lfilter, exceptList>>

\* A query throws; the catch answers 500 with no policies array.
ListThrow ==
  /\ lpc = "query"
  /\ lstatus' = 500
  /\ lpc' = "done"
  /\ UNCHANGED <<lcatalog, lfilter, lpolicies, exceptList>>

InitList ==
  /\ lpc = "idle"
  /\ lcatalog = {}
  /\ lfilter = Absent
  /\ lpolicies = {}
  /\ lstatus = 0

(***************************************************************************)
(* EditRecordForm.onSubmit (edit-record-form.tsx) and the handler its      *)
(* request reaches: PUT of tables/[tableName]/data/route.ts.               *)
(***************************************************************************)

KeyLists == {<<"id">>, <<"org">>, <<"id", "org">>}
ValueKinds == {"null", "string", "number"}
EditUrls == {Empty, "postgres://db"}
EditData == {{}, {"name"}, {"id", "name"}}
NoEditRequest == [query |-> <<>>, body |-> <<>>]

\* One condition of whereConditions: IS NULL for null, a quoted literal for a
\* string, the bare value otherwise.
KeyCondition(key, kind) ==
  [column |-> key,
   test |-> IF kind = "null" THEN "IS NULL"
            ELSE IF kind = "string" THEN "= quoted" ELSE "= bare"]

\* primaryKeys.map(...).join(' AND ')
WhereConditions(keys, record) ==
  [i \in 1..Len(keys) |-> KeyCondition(keys[i], record[keys[i]])]

\* The fetch of onSubmit: the path has no query string; the body has the
\* fields connectionUrl, data and where.
EditRequest(props, data) ==
  [query |-> <<>>,
   body |-> [connectionUrl |-> props.url, data |-> data,
             where |-> WhereConditions(props.primaryKeys, props.record)]]

\* searchParams.get(name), and a destructured body field: absent when the
\* request does not carry that name.
Param(fields, name) == IF name \in DOMAIN fields THEN fields[name] ELSE Absent

\* The form is shown for a record.
EditOpen ==
  /\ epc = "idle"
  /\ \E keys \in KeyLists, u \in EditUrls :
       \E rec \in [{keys[i] : i \in 1..Len(keys)} -> ValueKinds] :
         eprops' = [primaryKeys |-> keys, record |-> rec, url |-> u]
  /\ epc' = "open"
  /\ UNCHANGED <<edata, erequest, estatus, eupdates, eformError, exceptEdit>>

\* onSubmit(data): setError(null); the request is built and sent.
EditSubmit ==
  /\ epc = "open"
  /\ \E d \in EditData :
       /\ edata' = d
       /\ erequest' = EditRequest(eprops, d)
  /\ eformError' = FALSE
  /\ epc' = "sent"
  /\ UNCHANGED <<eprops, estatus, eupdates, exceptEdit>>

\* PUT: connectionUrl from the query string, { data, condition } from the
\* body, the three 400 checks, then one UPDATE ... WHERE ${condition}.
EditPut ==
  /\ epc = "sent"
  /\ LET connectionUrl == Param(erequest.query, "connectionUrl")
         data == Param(erequest.body, "data")
         condition == Param(erequest.body, "condition")
     IN IF Missing(connectionUrl) \/ data = Absent \/ data = {} \/ condition = Absent
          THEN /\ estatus' = 400
               /\ UNCHANGED eupdates
          ELSE /\ eupdates' = Append(eupdates, condition)
               /\ \E code \in {200, 404, 500} : estatus' = code
  /\ epc' = "answered"
  /\ UNCHANGED <<eprops, edata, erequest, eformError, exceptEdit>>

\* Back in onSubmit: !response.ok throws and the catch sets the form's error;
\* otherwise onSuccess().
EditSettle ==
  /\ epc = "answered"
  /\ eformError' = (estatus # 200)
  /\ epc' = "done"
  /\ UNCHANGED <<eprops, edata, erequest, estatus, eupdates, exceptEdit>>

InitEdit ==
  /\ epc = "idle"
  /\ eprops = [primaryKeys |-> <<>>, record |-> <<>>, url |-> Empty]
  /\ edata = {}
  /\ erequest = NoEditRequest
  /\ estatus = 0
  /\ eupdates = <<>>
  /\ eformError = FALSE

(***************************************************************************)
(* EnhancedRLSView (enhanced-rls-view.tsx): the loading flag and the       *)
(* requests the view has sent.  connection.url is set throughout.          *)
(***************************************************************************)

RequestKinds == {"fetch", "toggle", "delete"}

\* The view shows the spinner instead of its tables and buttons.
SpinnerShown == vloading /\ ~vhasData

\* The synchronous start of fetchRLSPolicies(): setLoading(true);
\* setError(null); the GET is sent.
StartFetch(inflight) == [inflight EXCEPT !["fetch"] = @ + 1]

\* The effect on connection.url, or handleCreatePolicySuccess, calls
\* fetchRLSPolicies().
ViewFetch ==
  /\ vstarted < MaxViewRequests
  /\ vstarted' = vstarted + 1
  /\ vinflight' = StartFetch(vinflight)
  /\ vloading' = TRUE
  /\ verror' = FALSE
  /\ UNCHANGED <<vhasData, exceptView>>

\* The GET answers ok: setPolicies, setTablesWithRls; finally
\* setLoading(false).
ViewFetchOk ==
  /\ vinflight["fetch"] > 0
  /\ vinflight' = [vinflight EXCEPT !["fetch"] = @ - 1]
  /\ \E nonEmpty \in BOOLEAN : vhasData' = nonEmpty
  /\ vloading' = FALSE
  /\ UNCHANGED <<verror, vstarted, exceptView>>

\* The GET fails: setError; finally setLoading(false).
ViewFetchFailed ==
  /\ vinflight["fetch"] > 0
  /\ vinflight' = [vinflight EXCEPT !["fetch"] = @ - 1]
  /\ verror' = TRUE
  /\ vloading' = FALSE
  /\ UNCHANGED <<vhasData, vstarted, exceptView>>

\* handleToggleRLS up to its fetch: setLoading(true); setError(null).
ViewToggle ==
  /\ ~SpinnerShown
  /\ vstarted < MaxViewRequests
  /\ vstarted' = vstarted + 1
  /\ vinflight' = [vinflight EXCEPT !["toggle"] = @ + 1]
  /\ vloading' = TRUE
  /\ verror' = FALSE
  /\ UNCHANGED <<vhasData, exceptView>>

\* handleDeletePolicy, confirmed, up to its fetch.
ViewDelete ==
  /\ ~SpinnerShown
  /\ vhasData
  /\ vstarted < MaxViewRequests
  /\ vstarted' = vstarted + 1
  /\ vinflight' = [vinflight EXCEPT !["delete"] = @ + 1]
  /\ vloading' = TRUE
  /\ verror' = FALSE
  /\ UNCHANGED <<vhasData, exceptView>>

\* The toggle or delete answers ok: fetchRLSPolicies() is called and not
\* awaited (it sets loading and sends its GET), then finally
\* setLoading(false).  The toggle's operations 'enable_rls' / 'disable_rls'
\* are none of the cases of the structure handler's switch, which answers
\* them 400 'Invalid operation': only the delete can answer ok.
ViewMutationOk(kind) ==
  /\ vinflight[kind] > 0
  /\ vinflight' = StartFetch([vinflight EXCEPT ![kind] = @ - 1])
  /\ verror' = FALSE
  /\ vloading' = FALSE
  /\ UNCHANGED <<vhasData, vstarted, exceptView>>

\* The toggle or delete fails: setError; finally setLoading(false).
ViewMutationFailed(kind) ==
  /\ vinflight[kind] > 0
  /\ vinflight' = [vinflight EXCEPT ![kind] = @ - 1]
  /\ verror' = TRUE
  /\ vloading' = FALSE
  /\ UNCHANGED <<vhasData, vstarted, exceptView>>

InitView ==
  /\ vloading = FALSE
  /\ vhasData = FALSE
  /\ verror = FALSE
  /\ vinflight = [k \in RequestKinds |-> 0]
  /\ vstarted = 0

(***************************************************************************)
(* TableView (table-view.tsx): the current table, the page, the rows shown *)
(* and the Previous / Next buttons.  connection.url is set throughout and  *)
(* the component stays mounted while tables are selected.                  *)
(***************************************************************************)

ViewedTables == {"users", "orders"}
NoTable == "none"
ViewPageSize == 10

\* COUNT(*) of each table.
TotalRows(t) == IF t = "users" THEN 25 ELSE 5

NoInfo == [table |-> NoTable, totalRows |-> 0, rows |-> [table |-> NoTable, page |-> 0]]

\* The response of GET tables/[tableName]: structure and count of the table,
\* and its first ten rows (SELECT * ... LIMIT 10).
TableInfoOf(t) ==
  [table |-> t, totalRows |-> TotalRows(t), rows |-> [table |-> t, page |-> 1]]

\* The pagination buttons are rendered: none of the early returns applies and
\* tableInfo.data is not empty.
ControlsShown ==
  /\ tvCurrent # NoTable
  /\ tvInfo # NoInfo
  /\ ~tvError

\* fetchTableInfo() / fetchTableData(newPage) up to the fetch.
SendRequest(r) ==
  /\ tvRequests' = tvRequests \cup {r}
  /\ tvLoading' = TRUE
  /\ tvError' = FALSE

\* A table is selected in the sidebar: setCurrentTable(t); the effect on
\* [connection.url, currentTable] calls fetchTableInfo().  page is not set.
SelectTable(t) ==
  /\ tvClicks < MaxClicks
  /\ t # tvCurrent
  /\ tvCurrent' = t
  /\ SendRequest([kind |-> "info", table |-> t, page |-> 0])
  /\ tvClicks' = tvClicks + 1
  /\ UNCHANGED <<tvPage, tvInfo, exceptTable>>

\* The Retry button of the error view: fetchTableInfo().
ClickRetry ==
  /\ tvClicks < MaxClicks
  /\ tvCurrent # NoTable
  /\ tvError
  /\ ~(tvLoading /\ tvInfo = NoInfo)
  /\ SendRequest([kind |-> "info", table |-> tvCurrent, page |-> 0])
  /\ tvClicks' = tvClicks + 1
  /\ UNCHANGED <<tvCurrent, tvPage, tvInfo, exceptTable>>

\* Next: enabled unless page * pageSize >= tableInfo.totalRows || loading.
ClickNext ==
  /\ tvClicks < MaxClicks
  /\ ControlsShown
  /\ ~(tvPage * ViewPageSize >= tvInfo.totalRows \/ tvLoading)
  /\ SendRequest([kind |-> "data", table |-> tvCurrent, page |-> tvPage + 1])
  /\ tvClicks' = tvClicks + 1
  /\ UNCHANGED <<tvCurrent, tvPage, tvInfo, exceptTable>>

\* Previous: enabled unless page === 1 || loading.
ClickPrevious ==
  /\ tvClicks < MaxClicks
  /\ ControlsShown
  /\ ~(tvPage = 1 \/ tvLoading)
  /\ SendRequest([kind |-> "data", table |-> tvCurrent, page |-> tvPage - 1])
  /\ tvClicks' = tvClicks + 1
  /\ UNCHANGED <<tvCurrent, tvPage, tvInfo, exceptTable>>

\* fetchTableInfo resumes with an ok response: setTableInfo(data); finally
\* setLoading(false).
InfoArrives ==
  \E r \in tvRequests :
    /\ r.kind = "info"
    /\ tvRequests' = tvRequests \ {r}
    /\ tvInfo' = TableInfoOf(r.table)
    /\ tvLoading' = FALSE
    /\ UNCHANGED <<tvCurrent, tvPage, tvError, tvClicks, exceptTable>>

\* fetchTableData resumes with an ok response: the rows replace
\* tableInfo.data (if there is a tableInfo), setPage(newPage); finally
\* setLoading(false).
DataArrives ==
  \E r \in tvRequests :
    /\ r.kind = "data"
    /\ tvRequests' = tvRequests \ {r}
    /\ tvInfo' = IF tvInfo = NoInfo THEN NoInfo
                  ELSE [tvInfo EXCEPT !.rows = [table |-> r.table, page |-> r.page]]
    /\ tvPage' = r.page
    /\ tvLoading' = FALSE
    /\ UNCHANGED <<tvCurrent, tvError, tvClicks, exceptTable>>

\* Either request fails: setError(message); finally setLoading(false).
RequestFails ==
  \E r \in tvRequests :
    /\ tvRequests' = tvRequests \ {r}
    /\ tvError' = TRUE
    /\ tvLoading' = FALSE
    /\ UNCHANGED <<tvCurrent, tvPage, tvInfo, tvClicks, exceptTable>>

InitTable ==
  /\ tvCurrent = NoTable
  /\ tvPage = 1
  /\ tvInfo = NoInfo
  /\ tvLoading = FALSE
  /\ tvError = FALSE
  /\ tvRequests = {}
  /\ tvClicks = 0

InitHandler ==
  /\ hd = "none"
  /\ req = NoRequest
  /\ pc = "idle"
  /\ poolsCreated = 0
  /\ poolEnds = 0
  /\ clientsAcquired = 0
  /\ clientReleases = 0
  /\ executed = <<>>
  /\ thrown = FALSE
  /\ pendingCode = 0
  /\ response = 0

InitForm ==
  /\ cpc = "idle"
  /\ form = InitialForm
  /\ store = InitialStore
  /\ url = NoUrl
  /\ tunnel = "Idle"
  /\ localPort = 0
  /\ connectConfig = {}
  /\ sshEnds = 0
  /\ fetches = 0
  /\ fetchedUrl = NoUrl
  /\ attempts = 0
  /\ storeAtSubmit = InitialStore
  /\ tunnelError = ""

InitTunnels ==
  /\ tstate = [i \in Tunnels |-> "Idle"]
  /\ connected = [i \in Tunnels |-> FALSE]
  /\ endCalls = [i \in Tunnels |-> 0]
  /\ closeCalls = [i \in Tunnels |-> 0]
  /\ tconfig = [i \in Tunnels |-> {}]

Init == InitHandler /\ InitForm /\ InitTunnels /\ InitFetch /\ InitIdent /\ InitWrite /\ InitRecord /\ InitPolicy /\ InitUpserts /\ InitList /\ InitEdit /\ InitView /\ InitTable

NextHandlers ==
  \/ Receive
  \/ Validate
  \/ PoolConnectOk
  \/ PoolConnectReject
  \/ TryQueryOk
  \/ TryQueryThrow
  \/ TryReturn
  \/ FinallyRelease
  \/ FinallyEnd
  \/ Respond
  \/ ConnectEntry
  \/ ConnectQueryOk
  \/ ConnectQueryThrow
  \/ ConnectRelease
  \/ ConnectEnd
  \/ RunQueryEntry
  \/ RunQueryOk
  \/ RunQueryThrow

SpecHandlers == Init /\ [][NextHandlers]_vars

NextConnect ==
  \/ Submit
  \/ TunnelStart
  \/ SshReady
  \/ SshError
  \/ ForwardErr
  \/ ForwardOk
  \/ TunnelResolved
  \/ TunnelRejected
  \/ SetConnectionAndFetch
  \/ FetchOk
  \/ FetchFailed
  \/ Disconnect

SpecConnect == Init /\ [][NextConnect]_vars

NextTunnel ==
  \E i \in Tunnels :
    \/ CreateTunnel(i)
    \/ LibSshReady(i)
    \/ LibSshError(i)
    \/ LibForwardErr(i)
    \/ LibForwardOk(i)
    \/ Close(i)

SpecTunnel == Init /\ [][NextTunnel]_vars

NextFetch ==
  \/ FetchReceive
  \/ FetchBuild
  \/ FetchSelect
  \/ FetchCount
  \/ FetchThrow
  \/ FetchRespond

SpecFetch == Init /\ [][NextFetch]_vars

NextIdent ==
  \/ IdentReceive
  \/ IdentEmit
  \/ IdentParse

SpecIdent == Init /\ [][NextIdent]_vars

NextWrite ==
  \/ WriteReceive
  \/ WriteBuild
  \/ WriteQuery

SpecWrite == Init /\ [][NextWrite]_vars

NextRecord ==
  \/ RecordOpen
  \/ RecordFill
  \/ RecordSubmit

SpecRecord == Init /\ [][NextRecord]_vars

NextPolicy ==
  \/ PolicyReceive
  \/ PolicyEnable
  \/ PolicyCheck
  \/ PolicyDrop
  \/ PolicyCreate
  \/ PolicyThrow

SpecPolicy == Init /\ [][NextPolicy]_vars

NextUpserts ==
  \/ UpsertSeed
  \/ \E i \in Requesters :
       \/ UpsertReceive(i)
       \/ UpsertEnable(i)
       \/ UpsertCheck(i)
       \/ UpsertDrop(i)
       \/ UpsertCreate(i)

SpecUpserts == Init /\ [][NextUpserts]_vars

NextList ==
  \/ ListSeed
  \/ ListReceive
  \/ ListRespond
  \/ ListThrow

SpecList == Init /\ [][NextList]_vars

NextEdit ==
  \/ EditOpen
  \/ EditSubmit
  \/ EditPut
  \/ EditSettle

SpecEdit == Init /\ [][NextEdit]_vars

NextView ==
  \/ ViewFetch
  \/ ViewFetchOk
  \/ ViewFetchFailed
  \/ ViewToggle
  \/ ViewDelete
  \/ ViewMutationOk("delete")
  \/ \E kind \in {"toggle", "delete"} : ViewMutationFailed(kind)

SpecView == Init /\ [][NextView]_vars

NextTable ==
  \/ \E t \in ViewedTables : SelectTable(t)
  \/ ClickRetry
  \/ ClickNext
  \/ ClickPrevious
  \/ InfoArrives
  \/ DataArrives
  \/ RequestFails

SpecTable == Init /\ [][NextTable]_vars

(***************************************************************************)
(* Properties of the request handlers (checked under SpecHandlers).        *)
(***************************************************************************)

\* C1: in every table-data, table-structure, describe-table and RLS handler,
\* once pool.connect() has returned a client, client.release() and pool.end()
\* are each called exactly once before the response is produced, on every exit
\* path (success, a 400/404 return inside try, a thrown query error): never
\* more than once, and exactly once by the time a response exists.
C1_ScopedReleaseExactlyOnce ==
  (hd \in ScopedHandlers /\ clientsAcquired >= 1) =>
    /\ clientReleases <= 1
    /\ poolEnds <= 1
    /\ (response # 0 => clientReleases = 1 /\ poolEnds = 1)

\* C1's case: a query threw after the client was acquired, and the 500 is out.
C1_Witness ==
  /\ hd \in ScopedHandlers
  /\ clientsAcquired = 1
  /\ thrown
  /\ response = 500
  /\ clientReleases = 1
  /\ poolEnds = 1

\* C2: in the connect handler the client obtained from pool.connect() is
\* released and the pool ended on every exit path, including when the
\* table-listing query throws after the client was acquired.
C2_ConnectReleasesOnEveryExit ==
  (hd = "connect" /\ clientsAcquired >= 1 /\ response # 0) =>
    (clientReleases = 1 /\ poolEnds = 1)

\* C3: in the runQuery handler the pool it creates is ended before the
\* response is returned, on every exit path (success, engine error as 500,
\* the 400 returns).
C3_RunQueryEndsPool ==
  (hd = "runQuery" /\ poolsCreated >= 1 /\ response # 0) => poolEnds = poolsCreated

\* The parameters each operation cannot do without (spec section 6), among those
\* C10 lists: connection URL, table name, policy name, query, data, condition,
\* operation.
RequiredParams(h) ==
  CASE h = "dataGET" -> {"connectionUrl", "tableName"}
    [] h = "dataPOST" -> {"connectionUrl", "tableName", "data"}
    [] h = "dataPUT" -> {"connectionUrl", "tableName", "data", "condition"}
    [] h = "dataDELETE" -> {"connectionUrl", "tableName", "condition"}
    [] h = "structPOST" -> {"connectionUrl", "tableName"}
    [] h = "structPUT" -> {"connectionUrl", "tableName", "operation"}
    [] h = "structDELETE" -> {"connectionUrl", "tableName"}
    [] h = "describeGET" -> {"connectionUrl", "tableName"}
    [] h = "rlsGET" -> {"connectionUrl"}
    [] h = "rlsPOST" -> {"connectionUrl", "tableName", "policyName"}
    [] h = "rlsDELETE" -> {"connectionUrl", "tableName", "policyName"}
    [] h = "connect" -> {"url"}
    [] h = "runQuery" -> {"connectionUrl", "query"}
    [] OTHER -> {}

LacksRequired(h, r) == \E f \in RequiredParams(h) : Missing(r[f])

\* C10: every handler that receives a request lacking a required parameter
\* answers 400 and executes no SQL statement; in particular the connect handler
\* given a body without url answers 400.
C10_MissingParameterIs400 ==
  (pc = "done" /\ LacksRequired(hd, req)) => (response = 400 /\ executed = <<>>)

(***************************************************************************)
(* Properties of a connect attempt (checked under SpecConnect).            *)
(***************************************************************************)

\* C4: every tunnel opened by a connect attempt that reaches Ready reaches
\* Closed when the owning attempt ends, whether the connection test succeeds
\* or fails: no tunnel is still Ready once its attempt has ended.
C4_NoReadyTunnelAfterAttempt == cpc = "done" => tunnel # "Ready"

\* C5: if tunnel setup fails during a connect attempt with ssh.enabled, the
\* request to /api/database/connect is never issued for that attempt, and the
\* attempt ends with status 'error' and an error whose message reports the
\* tunnel failure.
C5_TunnelFailureStopsConnect ==
  (form.sshEnabled /\ tunnel = "Failed") =>
    /\ fetches = 0
    /\ cpc \in {"tunnelWait", "done", "idle"}
    /\ cpc = "done" =>
         /\ store.status = "error"
         /\ store.error = [null |-> FALSE, prefix |-> "SSH tunnel error: ",
                           cause |-> tunnelError]
         /\ tunnelError # ""

\* C5's case: the tunnel failed and the attempt has ended.
C5_Witness ==
  /\ form.sshEnabled
  /\ tunnel = "Failed"
  /\ cpc = "done"
  /\ store.status = "error"
  /\ fetches = 0

\* C6: with ssh.enabled the database connection request is issued only after
\* createSSHTunnel has resolved (the tunnel is Ready); tunnel setup and
\* connection acquisition never overlap.
C6_FetchOnlyAfterTunnelReady ==
  /\ (form.sshEnabled /\ (fetches >= 1 \/ cpc = "fetching")) =>
       tunnel \in {"Ready", "Closed"}
  /\ tunnel \in {"Connecting", "Forwarding"} => (cpc = "tunnelWait" /\ fetches = 0)

\* C6's case: the request is in flight through a tunnel.
C6_Witness ==
  /\ form.sshEnabled
  /\ cpc = "fetching"
  /\ fetches = 1
  /\ tunnel = "Ready"

\* C7: when a tunnel is used, the connection URL handed to the database
\* connection step targets the tunnel's local endpoint: its host is the local
\* host and its port equals the localPort createSSHTunnel returned, for every
\* localPort value.
C7_UrlTargetsTunnelEndpoint ==
  (form.sshEnabled /\ fetches >= 1) =>
    (fetchedUrl.host = "localhost" /\ fetchedUrl.port = localPort)

\* C9: for every combination of populated/empty privateKey, passphrase and
\* password, the handshake configuration carries exactly one credential mode:
\* the private key (plus the passphrase only when one is given) or the
\* password, never both and never neither.
C9_ExactlyOneCredentialMode ==
  (form.sshEnabled /\ tunnel # "Idle") =>
    /\ ("privateKey" \in connectConfig) # ("password" \in connectConfig)
    /\ ("passphrase" \in connectConfig) <=>
         ("privateKey" \in connectConfig /\ form.passphrase)

(***************************************************************************)
(* Properties of the tunnel helper (checked under SpecTunnel).             *)
(***************************************************************************)

\* C8: the close function returned by createSSHTunnel is idempotent: for any
\* number n >= 1 of calls the underlying SSH session is ended exactly once
\* (close itself has no statement that can raise).
C8_CloseIdempotent ==
  \A i \in Tunnels :
    /\ closeCalls[i] >= 1 => (endCalls[i] = 1 /\ tstate[i] = "Closed")
    /\ endCalls[i] <= 1

\* C8's case: close has been called more than once on one tunnel.
C8_Witness ==
  \E i \in Tunnels : closeCalls[i] >= 2 /\ endCalls[i] = 1

(***************************************************************************)
(* Further properties of the request handlers (checked under SpecHandlers).*)
(***************************************************************************)

\* C11: an UPDATE or DELETE by condition that affects zero rows is answered
\* 404 and never with a success payload; when at least one row is affected the
\* response is a success whose rowsAffected equals the number of returned rows.
C11_ZeroRowsIsNotFound ==
  (hd \in {"dataPUT", "dataDELETE"} /\ pc = "done" /\ Len(executed) = 1) =>
    /\ executed[1].rowCount = 0 => response = 404
    /\ executed[1].rowCount >= 1 =>
         /\ response = 200
         /\ SuccessBody(executed).rowsAffected = executed[1].rowCount
         /\ SuccessBody(executed).rowsAffected = SuccessBody(executed).data

C11_Witness ==
  /\ hd = "dataPUT" /\ pc = "done" /\ Len(executed) = 1
  /\ executed[1].rowCount = 0 /\ response = 404

C11_WitnessSuccess ==
  /\ hd = "dataDELETE" /\ pc = "done" /\ Len(executed) = 1
  /\ executed[1].rowCount = 2 /\ response = 200

Statements == [i \in 1..Len(executed) |-> executed[i].stmt]

IsPrefix(a, b) == Len(a) <= Len(b) /\ a = SubSeq(b, 1, Len(a))

\* C19: the upsert-policy handler issues its statements in the order ENABLE
\* ROW LEVEL SECURITY, existence check, DROP POLICY (if and only if the check
\* found the policy), CREATE POLICY; CREATE POLICY is never issued for a name
\* the check found without the DROP having been issued first.
C19_UpsertStatementOrder ==
  hd = "rlsPOST" =>
    LET found == Len(executed) >= 2 /\ executed[2].rowCount > 0
        full == IF found
                  THEN <<"ENABLE RLS", "CHECK POLICY", "DROP POLICY", "CREATE POLICY">>
                  ELSE <<"ENABLE RLS", "CHECK POLICY", "CREATE POLICY">>
    IN /\ IsPrefix(Statements, full)
       /\ response = 200 => Statements = full

C19_Witness ==
  /\ hd = "rlsPOST" /\ response = 200
  /\ Statements = <<"ENABLE RLS", "CHECK POLICY", "DROP POLICY", "CREATE POLICY">>

C19_WitnessNotFound ==
  /\ hd = "rlsPOST" /\ response = 200
  /\ Statements = <<"ENABLE RLS", "CHECK POLICY", "CREATE POLICY">>

\* The column fields each alter-table operation needs.
NeededFields(op) ==
  CASE op = "addColumn" -> {"name", "type"}
    [] op = "dropColumn" -> {"name"}
    [] op = "renameColumn" -> {"name", "newName"}
    [] op = "renameTable" -> {"newName"}
    [] OTHER -> {}

WellFormedAlter(r) ==
  /\ r.operation \in Operations
  /\ r.column.obj = Present
  /\ \A f \in NeededFields(r.operation) : r.column[f] \notin {Absent, Empty}

C20_WitnessRejected ==
  /\ hd = "structPUT" /\ pc = "done" /\ req.operation = "addColumn"
  /\ ~WellFormedAlter(req) /\ clientsAcquired = 1 /\ executed = <<>> /\ response = 400

\* The column type a create-table or add-column request carries, if any.
RequestedType(h, r) ==
  IF h = "structPOST" /\ r.columns = Present THEN r.columnType
  ELSE IF h = "structPUT" /\ r.operation = "addColumn" /\ r.column.obj = Present
    THEN r.column.type
  ELSE Absent

\* C15: the create-table and add-column handlers accept a column type only if
\* it belongs to the fixed allow-list of engine type names; a request whose
\* column type is any other string is rejected and no DDL statement is executed.
C15_TypeAllowList ==
  (hd \in {"structPOST", "structPUT"} /\ pc = "done"
     /\ RequestedType(hd, req) \notin AllowedTypes \cup {Absent})
    => (executed = <<>> /\ response # 200)

(***************************************************************************)
(* Properties of fetchRows (checked under SpecFetch).                      *)
(***************************************************************************)

RequestedPage == IF fin.page = NotGiven THEN 1 ELSE fin.page
RequestedPageSize == IF fin.pageSize = NotGiven THEN 10 ELSE fin.pageSize

\* ceil(n / d): the least k with k * d >= n
Ceiling(n, d) == CHOOSE k \in 0..n : k * d >= n /\ (k = 0 \/ (k - 1) * d < n)

\* C12: for fetchRows with page >= 1, pageSize >= 1 and a table of N rows (no
\* filter), the query uses OFFSET (page-1)*pageSize and LIMIT pageSize, returns
\* exactly min(pageSize, max(0, N-(page-1)*pageSize)) rows, and reports
\* totalRows = N and totalPages = ceil(N/pageSize).
C12_Pagination ==
  (RequestedPage >= 1 /\ RequestedPageSize >= 1) =>
    /\ fpc \in {"select", "count", "respond", "done"} =>
         /\ fquery.offset = (RequestedPage - 1) * RequestedPageSize
         /\ fquery.limit = RequestedPageSize
    /\ fstatus = 200 =>
         LET skipped == (RequestedPage - 1) * RequestedPageSize
             left == IF fin.tableRows > skipped THEN fin.tableRows - skipped ELSE 0
         IN /\ fbody.data = (IF RequestedPageSize < left THEN RequestedPageSize ELSE left)
            /\ fbody.totalRows = fin.tableRows
            /\ fbody.totalPages = Ceiling(fin.tableRows, RequestedPageSize)

\* page 2, pageSize 10, N = 25 gives 10 rows and totalPages 3
C12_Witness ==
  /\ fin.page = 2 /\ fin.pageSize = 10 /\ fin.tableRows = 25
  /\ fstatus = 200 /\ fbody.data = 10 /\ fbody.totalPages = 3

\* C13: fetchRows accepts an orderDirection only from the set {ASC, DESC}: any
\* other supplied value is rejected with an error and is never placed into the
\* SELECT statement text.
C13_DirectionFromSet ==
  (fpc # "idle" /\ fin.orderDirection \notin {Absent, "ASC", "DESC"}) =>
    /\ fquery.order.direction # fin.orderDirection
    /\ fstatus # 200

(***************************************************************************)
(* Properties of identifiers in statements (checked under SpecIdent).      *)
(***************************************************************************)

\* C14: every table, column and policy name placed into a statement is either
\* correctly escaped (embedded quote characters doubled) or rejected, so that
\* un-quoting the emitted identifier yields the original name; this holds for
\* every name containing the double-quote character.  (No handler rejects a
\* name, so every name is emitted.)
C14_QuoteRoundTrip ==
  ipc = "parsed" =>
    /\ iparsed.closed
    /\ iparsed.ident = iname
    /\ iparsed.rest = <<>>

\* Names without a double quote do round-trip.
C14_PlainNamesRoundTrip ==
  (ipc = "parsed" /\ \A k \in 1..Len(iname) : iname[k] # Quote) =>
    (iparsed.closed /\ iparsed.ident = iname /\ iparsed.rest = <<>>)

(***************************************************************************)
(* Properties of INSERT / UPDATE construction (checked under SpecWrite).   *)
(***************************************************************************)

\* C16: for a column -> value mapping with n >= 1 entries, the INSERT statement
\* (and the SET clause of UPDATE) contains exactly the placeholders $1..$n,
\* placeholder $i is attached to the i-th column of the mapping, the parameter
\* list is the mapping's values in the same order, and no value appears in the
\* statement text.
C16_PlaceholdersBindValues ==
  wpc = "sent" =>
    LET n == Len(wmap) IN
    /\ n >= 1
    /\ Len(wsent.text.columns) = n
    /\ Len(wsent.text.slots) = n
    /\ Len(wsent.params) = n
    /\ \A i \in 1..n :
         /\ wsent.text.columns[i] = wmap[i].col
         /\ wsent.text.slots[i] = [kind |-> "placeholder", index |-> i]
         /\ wsent.params[i] = wmap[i].val

C16_Witness ==
  /\ wpc = "sent" /\ wop = "UPDATE" /\ Len(wmap) = 3
  /\ wmap[1].col = "c" /\ wmap[3].val = "y"
  /\ wsent.text.slots[3].index = 3

(***************************************************************************)
(* Properties of the create-record form (checked under SpecRecord).        *)
(***************************************************************************)

\* The caller supplied a non-null value for column c.
Supplied(c) == c \in DOMAIN rdata /\ rdata[c] # "null"

\* C17: when building an insert payload from the form values, a column is left
\* out only if its descriptor reports a sequence-/identity-style default and
\* the caller left it null/absent; every caller-supplied non-null value is kept
\* in the payload, for columns with and without defaults.
C17_OnlyGeneratedColumnsLeftOut ==
  rpc = "submitted" =>
    \A c \in FormColumns :
      /\ c \notin DOMAIN rpayload =>
           (rcolumns[c] \in {"nextval('t_id_seq'::regclass)", "identity"} /\ ~Supplied(c))
      /\ Supplied(c) => (c \in DOMAIN rpayload /\ rpayload[c] = rdata[c])

\* What the form does guarantee: text the user typed is always sent on.
C17_TypedValuesKept ==
  rpc = "submitted" =>
    \A c \in DOMAIN rdata :
      rdata[c] = "typed" => (c \in DOMAIN rpayload /\ rpayload[c] = "typed")

(***************************************************************************)
(* Properties of the policy upsert (checked under SpecPolicy).             *)
(***************************************************************************)

\* C18: replacing an existing RLS policy through the upsert handler (same
\* table, same name, new clauses) ends with exactly one policy of that name on
\* that table, carrying the new clauses; upserting a name that does not exist
\* ends with exactly one policy of that name.  Read as: a request that replaces
\* an existing policy never ends without a policy of that name, and a request
\* answered with success ends with the policy carrying the request's clauses.
C18_UpsertLeavesOnePolicy ==
  ppc = "done" =>
    /\ pbefore[preq.policyName] # NoPolicy => policies[preq.policyName] # NoPolicy
    /\ pstatus = 200 => policies[preq.policyName] = preq.clauses

\* A successful upsert leaves the policy with the request's clauses and the
\* other policies as they were.
C18_SuccessfulUpsert ==
  (ppc = "done" /\ pstatus = 200) =>
    /\ policies[preq.policyName] = preq.clauses
    /\ \A n \in PolicyNames \ {preq.policyName} : policies[n] = pbefore[n]

C18_SuccessfulReplace ==
  /\ ppc = "done" /\ pstatus = 200
  /\ pbefore[preq.policyName] = "using a" /\ policies[preq.policyName] = "using b"

(***************************************************************************)
(* Properties of the request handlers, continued (SpecHandlers).           *)
(***************************************************************************)

TableParts == {DescribeParts[i] : i \in 1..Len(DescribeParts)}

\* C21: describeTable is all-or-nothing: the response contains structure,
\* primary keys, foreign keys, sample rows and total count only if every
\* sub-query succeeded; if any sub-query fails the response is an error that
\* carries none of them.
C21_DescribeAllOrNothing ==
  (hd = "describeGET" /\ pc = "done" /\ clientsAcquired = 1) =>
    LET parts == ResponseParts(response, executed) IN
    /\ parts \cap TableParts # {} =>
         (TableParts \subseteq parts /\ Len(executed) = 5 /\ ~thrown /\ response = 200)
    /\ thrown => (response = 500 /\ parts \cap TableParts = {})

C21_Witness ==
  /\ hd = "describeGET" /\ pc = "done" /\ thrown /\ Len(executed) = 3
  /\ response = 500

C21_WitnessSuccess ==
  /\ hd = "describeGET" /\ pc = "done" /\ response = 200 /\ Len(executed) = 5

\* C25: when pool.connect() rejects in any handler, the pool created for that
\* request is still ended before the 500 response is returned; no pool is left
\* un-ended by a failed acquisition.
C25_PoolEndedAfterFailedConnect ==
  (hd \in ScopedHandlers \cup {"connect"} /\ pc = "done"
     /\ poolsCreated >= 1 /\ clientsAcquired = 0 /\ response = 500)
    => poolEnds = poolsCreated

(***************************************************************************)
(* Properties of the policy upsert, continued (SpecPolicy).                *)
(***************************************************************************)

\* C23: if the upsert-policy handler fails after it has issued DROP POLICY for
\* an existing policy (e.g. CREATE POLICY is rejected by the engine), the
\* table's policy set and RLS-enabled flag are the same as before the request:
\* an error response never leaves the old policy removed.
C23_FailedUpsertRestores ==
  (ppc = "done" /\ pstatus = 500 /\ dropIssued) =>
    (policies = pbefore /\ rlsEnabled = rlsBefore)

(***************************************************************************)
(* Properties of concurrent upserts (checked under SpecUpserts).           *)
(***************************************************************************)

BothAnswered == \A i \in Requesters : upc[i] = "done"

\* C24: for any interleaving of two concurrent upsert-policy requests for the
\* same table and policy name, both requests succeed and the table ends with
\* exactly one policy of that name whose clauses are those of one of the two
\* requests.
C24_ConcurrentUpsertsBothSucceed ==
  BothAnswered =>
    /\ \A i \in Requesters : ustatus[i] = 200
    /\ ucatalog \in {RequestClauses(i) : i \in Requesters}

\* What every interleaving does give: one policy of that name at the end,
\* carrying the clauses of a request that was answered 200.
C24_OnePolicyAtEnd ==
  BothAnswered =>
    \E i \in Requesters : ustatus[i] = 200 /\ ucatalog = RequestClauses(i)

(***************************************************************************)
(* Properties of the list-policies handler (checked under SpecList).       *)
(***************************************************************************)

PublicPolicies(catalog) == {row \in catalog : row.schema_name = "public"}

\* C22: without a table filter the handler returns the policies of the public
\* schema; with a filter it returns exactly the public-schema policies of that
\* table, so a filtered result is a subset of the unfiltered one.
C22_FilteredIsPublicSubset ==
  (lpc = "done" /\ lstatus = 200) =>
    /\ lfilter \in {Absent, Empty} => lpolicies = PublicPolicies(lcatalog)
    /\ lfilter \in ListedTables =>
         /\ lpolicies = {row \in PublicPolicies(lcatalog) : row.table_name = lfilter}
         /\ lpolicies \subseteq ListPolicies(lcatalog, Absent)

\* The half that holds: the unfiltered list is the public schema's policies.
C22_UnfilteredIsPublic ==
  (lpc = "done" /\ lstatus = 200 /\ lfilter \in {Absent, Empty}) =>
    lpolicies = PublicPolicies(lcatalog)

(***************************************************************************)
(* Properties of the store across connect attempts (checked under          *)
(* SpecConnect).                                                           *)
(***************************************************************************)

\* C26: in the database store, after any sequence of connect attempts and
\* disconnects, status = 'connected' implies error = null: a successful
\* connect after a failed one does not leave the earlier error in the store.
C26_ConnectedHasNoError ==
  store.status = "connected" => store.error = NoError

\* The current attempt was answered by a failed connection test.
FailedAtConnectionTest ==
  /\ cpc = "done"
  /\ fetches = 1
  /\ store.status = "error"
  /\ ~store.error.null
  /\ store.error.cause \in ConnectFailures

\* C27: a connect attempt that fails at the database connection test leaves
\* the store's connection (host, credentials, url) and tables as they were
\* before the attempt; only status and error change.
C27_FailedTestKeepsConnection ==
  FailedAtConnectionTest =>
    /\ store.connection = storeAtSubmit.connection
    /\ store.tables = storeAtSubmit.tables

(***************************************************************************)
(* Properties of the record edit (checked under SpecEdit).                 *)
(***************************************************************************)

\* C28: a record edit submitted from EditRecordForm for a record with at
\* least one primary key reaches the PUT data handler with every parameter
\* the handler requires (connection URL, data, condition), so the handler
\* executes one UPDATE whose WHERE clause is the form's primary-key condition.
C28_EditExecutesOneUpdate ==
  (epc = "done" /\ Len(eprops.primaryKeys) >= 1 /\ eprops.url # Empty /\ edata # {}) =>
    eupdates = <<WhereConditions(eprops.primaryKeys, eprops.record)>>

\* What the code does with every submitted edit: 400 and no UPDATE.
C28_EditAlwaysRefused ==
  epc = "done" => (estatus = 400 /\ eupdates = <<>> /\ eformError)

(***************************************************************************)
(* Properties of EnhancedRLSView's loading flag (checked under SpecView).  *)
(***************************************************************************)

RequestInFlight == \E k \in RequestKinds : vinflight[k] > 0

\* C29: in EnhancedRLSView, loading is true whenever a request issued by the
\* view (policy fetch, RLS toggle, policy delete, or the refresh triggered
\* after a toggle or delete) is still in flight; loading becomes false only
\* after the last outstanding request has completed.
C29_LoadingWhileInFlight ==
  RequestInFlight => vloading

\* The direction that holds: with nothing in flight, loading is false.
C29_IdleIsNotLoading ==
  ~RequestInFlight => ~vloading

(***************************************************************************)
(* Properties of TableView's pagination (checked under SpecTable).         *)
(***************************************************************************)

\* The view has settled on a table: nothing in flight, the table's
\* information is shown.
TableShown == tvRequests = {} /\ ControlsShown /\ tvInfo.table = tvCurrent

LastPage(t) == Max(1, CeilDiv(TotalRows(t), ViewPageSize))

\* C30: in TableView, after any sequence of table selections and Previous /
\* Next clicks, the rows displayed are the rows of page `page` of the current
\* table and 1 <= page <= max(1, ceil(totalRows/pageSize)) for the current
\* table; selecting another table shows its first page with page = 1.
C30_PageOfCurrentTable ==
  TableShown =>
    /\ tvInfo.rows = [table |-> tvCurrent, page |-> tvPage]
    /\ 1 <= tvPage
    /\ tvPage <= LastPage(tvCurrent)

\* What does hold: the page number never drops below 1.
C30_PageAtLeastOne == tvPage >= 1

====
